---- MODULE Spec2Model ----
(***************************************************************************)
(* Verification model of the dermatology-clinic directory repository.      *)
(*                                                                         *)
(* Part I   : the text-search collectors (src/unnamed/part_006 and the     *)
(*            capped variant src/unnamed/part_007).                        *)
(* Part II  : the Unsplash fetch script (src/unnamed/part_009).            *)
(* Part III : the home page, client-side-search version                    *)
(*            (src/app/page.tsx, lines 1-291).                             *)
(* Part IV  : the clinic detail page (src/unnamed/part_003) and the route  *)
(*            GET /api/clinics (src/unnamed/part_004).                     *)
(* Part V   : needsRefresh (src/unnamed/part_000).                         *)
(* Part VI  : getPhotoUrl, proxy version (src/unnamed/part_000), and the   *)
(*            query string read by src/app/api/photo/route.ts.             *)
(* Part VII : searchDermClinics and getClinicDetails, proxy version        *)
(*            (src/unnamed/part_000, lines 11-208).                        *)
(* Part VIII: the nearby-search collectors (src/unnamed/part_005 and       *)
(*            src/unnamed/part_008).                                       *)
(* Part IX  : ClinicCard, next/image version                               *)
(*            (src/components/ClinicCard.tsx, lines 173-377).              *)
(*                                                                         *)
(* Text is modelled as a tuple of one-character strings, so that           *)
(* String.prototype.includes, toLowerCase and template-literal joins are   *)
(* computed character by character, as the code computes them.             *)
(***************************************************************************)
EXTENDS Integers, Sequences, FiniteSets, TLC

(***************************************************************************)
(* Bounds of the model.                                                    *)
(***************************************************************************)
\* pages the Places API holds for one query, at most
MaxPages == 2
\* places the Places API returns in one page, at most
MaxPlacesPerPage == 2
\* largest value of PLACES_MAX_REQUESTS that is tried
MaxRequestCap == 7
\* new photos one page of the Unsplash search returns, at most
MaxResultsPerPage == 3
\* rows of the clinics table, at most
MaxRows == 502
\* first and last day of 2025 (counted from 0) on which needsRefresh is called
FirstDay == 31
LastDay == 330
\* ages of lastFetchedAt that are tried: 30 days give or take so many hours
AgeSpread == 2

(***************************************************************************)
(* Text helpers (JavaScript string semantics).                             *)
(***************************************************************************)
UPPER == <<"A","B","C","D","E","F","G","H","I","J","K","L","M",
           "N","O","P","Q","R","S","T","U","V","W","X","Y","Z">>
LOWER == <<"a","b","c","d","e","f","g","h","i","j","k","l","m",
           "n","o","p","q","r","s","t","u","v","w","x","y","z">>
DIGITS == {"0","1","2","3","4","5","6","7","8","9"}

\* String.prototype.toLowerCase, one character
toLowerChar(c) ==
  IF \E i \in 1..26 : UPPER[i] = c
    THEN LOWER[CHOOSE i \in 1..26 : UPPER[i] = c]
    ELSE c

\* String.prototype.toLowerCase
toLowerCase(s) == [i \in 1..Len(s) |-> toLowerChar(s[i])]

\* String.prototype.includes
includes(hay, needle) ==
  \E i \in 0..(Len(hay) - Len(needle)) :
     \A k \in 1..Len(needle) : hay[i + k] = needle[k]

\* Array.prototype.includes over an array of strings
arrayIncludes(arr, x) == \E i \in 1..Len(arr) : arr[i] = x

\* Array.prototype.join(' ')
RECURSIVE join(_)
join(arr) ==
  IF Len(arr) = 0 THEN <<>>
  ELSE IF Len(arr) = 1 THEN arr[1]
  ELSE arr[1] \o <<" ">> \o join(Tail(arr))

\* \w of a JavaScript regular expression
isWordChar(c) ==
  \/ \E i \in 1..26 : UPPER[i] = c \/ LOWER[i] = c
  \/ c \in DIGITS
  \/ c = "_"

\* the regular expression  needle\b  : needle followed by a word boundary
includesAtWordEnd(hay, needle) ==
  \E i \in 0..(Len(hay) - Len(needle)) :
     /\ \A k \in 1..Len(needle) : hay[i + k] = needle[k]
     /\ \/ i + Len(needle) = Len(hay)
        \/ ~isWordChar(hay[i + Len(needle) + 1])

(***************************************************************************)
(* The keyword classifier.                                                 *)
(***************************************************************************)
DERM_KEYWORDS ==
  [ core |-> <<
      <<"d","e","r","m","a","t","o","l","o","g","y">>,
      <<"d","e","r","m","a","t","o","l","o","g","i","s","t">>,
      <<"d","e","r","m","a","t","o","l","o","g","i","c">>,
      <<"s","k","i","n"," ","c","l","i","n","i","c">>,
      <<"s","k","i","n"," ","c","e","n","t","e","r">>,
      <<"s","k","i","n"," ","c","a","r","e"," ","c","l","i","n","i","c">>
    >>
  , related |-> <<
      <<"s","k","i","n"," ","d","o","c","t","o","r">>,
      <<"s","k","i","n"," ","s","p","e","c","i","a","l","i","s","t">>,
      <<"s","k","i","n"," ","h","e","a","l","t","h">>,
      <<"m","e","d","i","c","a","l"," ","d","e","r","m","a","t","o","l","o","g","y">>,
      <<"c","o","s","m","e","t","i","c"," ","d","e","r","m","a","t","o","l","o","g","y">>,
      <<"l","a","s","e","r"," ","d","e","r","m","a","t","o","l","o","g","y">>,
      <<"a","e","s","t","h","e","t","i","c"," ","d","e","r","m","a","t","o","l","o","g","y">>,
      <<"m","o","h","s"," ","s","u","r","g","e","r","y">>,
      <<"s","k","i","n"," ","c","a","n","c","e","r">>,
      <<"m","e","l","a","n","o","m","a">>
    >>
  , partial |-> <<
      <<"d","e","r","m">>,
      <<"s","k","i","n">>
    >>
  , exclude |-> <<
      <<"d","e","n","t","a","l">>,
      <<"d","e","n","t","i","s","t">>,
      <<"o","r","t","h","o","d","o","n","t">>,
      <<"o","r","a","l"," ","s","u","r","g","e","r","y">>,
      <<"v","e","t","e","r","i","n","a","r","y">>,
      <<"a","n","i","m","a","l"," ","c","l","i","n","i","c">>,
      <<"p","e","t"," ","c","l","i","n","i","c">>,
      <<"m","a","s","s","a","g","e">>,
      <<"s","p","a"," ","r","e","s","o","r","t">>,
      <<"d","a","y"," ","s","p","a">>,
      <<"n","a","i","l"," ","s","a","l","o","n">>
    >>
  ]

\* `${name} ${website} ${types.join(' ')}` of part_007
searchTextOf(name, website, types) ==
  name \o <<" ">> \o website \o <<" ">> \o join(types)

\* RULE 1 of part_007: an exclude term occurs in the search text
hasExcludeTerm(searchText) ==
  \E i \in 1..Len(DERM_KEYWORDS.exclude) :
     includes(searchText, DERM_KEYWORDS.exclude[i])

\* RULES 2-6 of part_007, reached when RULE 1 did not reject
acceptAfterExclude(name, website, types, searchText) ==
  LET hasDerm == includes(searchText, <<"d","e","r","m">>)
      hasSkin == \/ includes(name, <<"s","k","i","n">>)
                 \/ includes(website, <<"s","k","i","n">>)
      medicalContext ==
        \/ arrayIncludes(types, <<"d","o","c","t","o","r">>)
        \/ arrayIncludes(types, <<"h","e","a","l","t","h">>)
        \/ includes(searchText, <<"m","e","d","i","c","a","l">>)
        \/ includes(searchText, <<"c","l","i","n","i","c">>)
        \/ includes(searchText, <<"c","e","n","t","e","r">>)
      isStore ==
        \/ arrayIncludes(types, <<"s","t","o","r","e">>)
        \/ arrayIncludes(types,
             <<"b","e","a","u","t","y","_","s","u","p","p","l","y","_","s","t","o","r","e">>)
        \/ includes(searchText,
             <<"b","e","a","u","t","y"," ","s","u","p","p","l","y">>)
        \/ includes(searchText,
             <<"c","o","s","m","e","t","i","c","s"," ","s","t","o","r","e">>)
  IN
  IF arrayIncludes(types,
       <<"s","k","i","n","_","c","a","r","e","_","c","l","i","n","i","c">>)
    THEN TRUE
  ELSE IF \E i \in 1..Len(DERM_KEYWORDS.core) :
            includes(searchText, DERM_KEYWORDS.core[i])
    THEN TRUE
  ELSE IF \E i \in 1..Len(DERM_KEYWORDS.related) :
            \/ includes(name, DERM_KEYWORDS.related[i])
            \/ includes(website, DERM_KEYWORDS.related[i])
    THEN TRUE
  ELSE IF (hasDerm \/ hasSkin) /\ medicalContext
    THEN ~isStore
  ELSE FALSE

\* a bug the classifier could have: the place-type rule tried before the
\* exclude rule
acceptTypeBeforeExclude(place) ==
  LET name    == toLowerCase(place.name)
      website == toLowerCase(place.website)
      types   == [i \in 1..Len(place.types) |-> toLowerCase(place.types[i])]
      searchText == searchTextOf(name, website, types)
  IN \/ arrayIncludes(types,
          <<"s","k","i","n","_","c","a","r","e","_","c","l","i","n","i","c">>)
     \/ /\ ~hasExcludeTerm(searchText)
        /\ acceptAfterExclude(name, website, types, searchText)

\* acceptByDermHeuristics of part_007
acceptByDermHeuristics7(place) ==
  LET name    == toLowerCase(place.name)
      website == toLowerCase(place.website)
      types   == [i \in 1..Len(place.types) |-> toLowerCase(place.types[i])]
      searchText == searchTextOf(name, website, types)
  IN IF hasExcludeTerm(searchText)
       THEN FALSE
       ELSE acceptAfterExclude(name, website, types, searchText)

\* acceptByDermHeuristics of part_006:
\*   /dermatolog|skin clinic|skin center|derma\b/.test(`${name} ${website}`)
acceptByDermHeuristics6(place) ==
  LET name    == toLowerCase(place.name)
      website == toLowerCase(place.website)
      hay     == name \o <<" ">> \o website
  IN \/ includes(hay, <<"d","e","r","m","a","t","o","l","o","g">>)
     \/ includes(hay, <<"s","k","i","n"," ","c","l","i","n","i","c">>)
     \/ includes(hay, <<"s","k","i","n"," ","c","e","n","t","e","r">>)
     \/ includesAtWordEnd(hay, <<"d","e","r","m","a">>)


(***************************************************************************)
(* The text-search collectors: program state.                              *)
(***************************************************************************)
VARIABLES
  script,                \* which collector runs: "part_006" or "part_007"
  states,                \* main: the state codes to collect, in order
  numPages,              \* Places API: pages held for query 1, 2, 3
  MAX_REQUESTS,          \* Number(process.env.PLACES_MAX_REQUESTS || 800)
  MAX_CLINICS_PER_STATE, \* part_007 only; 0 = no cap
  MAX_CLINICS_GLOBAL,    \* part_007 only; 0 = no cap
  QPS,
  NEXT_PAGE_DELAY_MS,
  REQUESTS,              \* let REQUESTS = 0
  GLOBAL_CLINICS,        \* let GLOBAL_CLINICS = 0 (part_007)
  pc,                    \* position of the single thread of control
  st,                    \* main: index in states of the state being collected
  seen,                  \* collectState: Set of place ids
  clinics,               \* collectState: the clinics array
  q,                     \* collectState: index of the current query (1..3)
  pageToken,             \* collectState: let pageToken
  data,                  \* collectState: the parsed response being processed
  placeNo,               \* collectState: places of data.places consumed so far
  inflight,              \* HTTP requests sent and not yet answered
  reqToken,              \* body.pageToken of the last request sent
  files,                 \* data/clinics/<state>.json : clinics array written
  slept,                 \* SLEEP durations completed since the last response
  sent,                  \* history: HTTP requests sent in this run
  qReq,                  \* history: requests sent for the current query
  lastNext,              \* history: nextPageToken of the query's last response
  sentIn,                \* history: requests sent per state index
  outcome,               \* history: how collectState ended, per state index
  lastError,             \* history: message of the last error main caught
  lastSkip               \* history: why the place just processed added no clinic

collectVars ==
  <<script, states, numPages, MAX_REQUESTS, MAX_CLINICS_PER_STATE,
    MAX_CLINICS_GLOBAL, QPS, NEXT_PAGE_DELAY_MS, REQUESTS, GLOBAL_CLINICS,
    pc, st, seen, clinics, q, pageToken, data, placeNo, inflight, reqToken,
    files, slept, sent, qReq, lastNext, sentIn, outcome, lastError, lastSkip>>

envVars ==
  <<script, states, numPages, MAX_REQUESTS, MAX_CLINICS_PER_STATE,
    MAX_CLINICS_GLOBAL, QPS, NEXT_PAGE_DELAY_MS>>

(***************************************************************************)
(* The Unsplash fetch script: program state.                               *)
(***************************************************************************)
VARIABLES
  upc,          \* main: position ("idle" while the script does not run)
  upage,        \* main: p of the search loop
  results,      \* main: the results array
  unique,       \* main: the de-duplicated, sliced results
  task,         \* per element of tasks: how far the download got
  active,       \* the runner's let active
  next,         \* the runner's let next
  manifest,     \* main: the manifest array (idx of each entry)
  savedFiles,   \* idx of every clinic-<idx>.jpg written
  searching,    \* search requests in flight
  srcless,      \* Unsplash API: id of the photo without urls (0: none)
  freshId       \* Unsplash API: id of the next photo not yet returned

unsplashVars ==
  <<upc, upage, results, unique, task, active, next, manifest, savedFiles,
    searching, srcless, freshId>>

(***************************************************************************)
(* The home page (client-side-search version): component state.            *)
(***************************************************************************)
VARIABLES
  hpc,             \* "idle" (not mounted), "fetching" (loadClinics), "ready"
  hdb,             \* the rows GET /api/clinics?per_page=1000 returns
  hclinics,        \* useState clinics
  filteredClinics, \* useState filteredClinics
  hloading,        \* useState loading
  filters,         \* useState filters
  lastQuery        \* the query of the last handleSearch call

homeVars ==
  <<hpc, hdb, hclinics, filteredClinics, hloading, filters, lastQuery>>

(***************************************************************************)
(* The clinic detail page and GET /api/clinics.                            *)
(***************************************************************************)
VARIABLES
  dpc,          \* "idle" (not mounted), "mounted", "fetching", "settled"
  rows,         \* number of rows of the clinics table
  clinicId,     \* params.id
  clinic,       \* useState clinic (place_id, None for null)
  dloading,     \* useState loading
  response      \* how the fetch ended: "", "ok", "error", "rejected"

detailVars == <<dpc, rows, clinicId, clinic, dloading, response>>

(***************************************************************************)
(* needsRefresh: one call.                                                 *)
(***************************************************************************)
VARIABLES
  rpc,            \* "idle", "call", "returned"
  zone,           \* time zone of the runtime
  now,            \* the current time (hours since the start of the year, UTC)
  lastFetchedAt,  \* the argument: an ISO timestamp [day, hour] in UTC
  refresh         \* the value returned

refreshVars == <<rpc, zone, now, lastFetchedAt, refresh>>

(***************************************************************************)
(* searchDermClinics / getClinicDetails of lib/googlePlaces: one call.     *)
(***************************************************************************)
VARIABLES
  lpc,          \* "idle", "start", "fetching", "parsing", "returned", "threw"
  lfn,          \* the function called
  apiKey,       \* process.env.GOOGLE_PLACES_API_KEY
  lbody,        \* the body of the response received
  lresult,      \* the value returned to the caller
  lfailure      \* where the call failed ("" when nowhere)

libVars == <<lpc, lfn, apiKey, lbody, lresult, lfailure>>

(***************************************************************************)
(* The nearby-search collectors: program state.                            *)
(***************************************************************************)
VARIABLES
  npc,          \* collectData: position ("idle" while it does not run)
  nscript,      \* "part_005" or "part_008"
  nstate,       \* index of the state in US_STATES
  ncity,        \* index of the city in state.major_cities
  requestCount, \* part_005: let requestCount
  stateClinics, \* the keys of the Map stateClinics
  totalClinics, \* let totalClinics
  nfiles,       \* per state: the place ids written to its file
  ninflight,    \* Places requests in flight
  nsent,        \* Places requests sent so far
  nwaited,      \* the delays slept through since the last request ended
  nlast         \* how the last request ended: "", "ok", "failed"

nearbyVars ==
  <<npc, nscript, nstate, ncity, requestCount, stateClinics, totalClinics,
    nfiles, ninflight, nsent, nwaited, nlast>>

(***************************************************************************)
(* getPhotoUrl (proxy version): one call.                                  *)
(***************************************************************************)
VARIABLES
  gpc,          \* "idle", "call", "returned"
  photoName,    \* argument
  maxWidth,     \* argument
  maxHeight,    \* argument
  placesKey,    \* process.env.GOOGLE_PLACES_API_KEY of the server
  photoUrl      \* the value returned

photoVars == <<gpc, photoName, maxWidth, maxHeight, placesKey, photoUrl>>

(***************************************************************************)
(* ClinicCard (next/image version): one card.                              *)
(***************************************************************************)
VARIABLES
  cpc,          \* "idle" (not mounted) or "mounted"
  cardClinic,   \* the clinic prop: [version, photo]
  imgSrc,       \* useState imgSrc
  failedSrcs,   \* the srcs whose loading has failed so far
  renders       \* re-renders of the card so far

cardVars == <<cpc, cardClinic, imgSrc, failedSrcs, renders>>

\* the variables of the programs added to the repository's model later
moreVars == <<libVars, nearbyVars, photoVars, cardVars>>

\* the variables of every program but the text-search collectors
notCollect == <<unsplashVars, homeVars, detailVars, refreshVars, moreVars>>
\* the variables of every program but the Unsplash fetch script
notUnsplash == <<collectVars, homeVars, detailVars, refreshVars, moreVars>>
\* the variables of every program but the home page
notHome == <<collectVars, unsplashVars, detailVars, refreshVars, moreVars>>
\* the variables of every program but the detail page
notDetail == <<collectVars, unsplashVars, homeVars, refreshVars, moreVars>>
\* the variables of every program but needsRefresh
notRefresh == <<collectVars, unsplashVars, homeVars, detailVars, moreVars>>
\* the variables of the five programs above
firstVars == <<collectVars, unsplashVars, homeVars, detailVars, refreshVars>>
\* the variables of every program but the library calls
notLib == <<firstVars, nearbyVars, photoVars, cardVars>>
\* the variables of every program but the nearby-search collectors
notNearby == <<firstVars, libVars, photoVars, cardVars>>
\* the variables of every program but getPhotoUrl
notPhoto == <<firstVars, libVars, nearbyVars, cardVars>>
\* the variables of every program but ClinicCard
notCard == <<firstVars, libVars, nearbyVars, photoVars>>

\* undefined page token / no file
None == 0
\* a missing (falsy) place id
NoId == ""
NoFile == "none"
\* the three queries of collectState
NUM_QUERIES == 3

(***************************************************************************)
(* The Places API as the collectors see it: places the text search can     *)
(* return.  A page is any sequence of at most MaxPlacesPerPage of them.    *)
(***************************************************************************)
Catalogue ==
  { [id |-> "p1", name |-> <<"D","e","r","m","a","t","o","l","o","g","y">>,
     website |-> <<>>, types |-> << <<"d","o","c","t","o","r">> >>],
    [id |-> "p1", name |-> <<"S","k","i","n"," ","C","e","n","t","e","r">>,
     website |-> <<>>, types |-> << <<"h","e","a","l","t","h">> >>],
    [id |-> "p2",
     name |-> <<"D","e","n","t","a","l"," ","D","e","r","m","a","t","o","l","o","g","y">>,
     website |-> <<>>,
     types |-> << <<"s","k","i","n","_","c","a","r","e","_","c","l","i","n","i","c">> >>],
    [id |-> NoId, name |-> <<"D","E","R","M","A","T","O","L","O","G","Y">>,
     website |-> <<>>, types |-> <<>>],
    [id |-> "p3", name |-> <<"G","l","o","w">>,
     website |-> <<"a",".","c","o">>,
     types |-> << <<"s","k","i","n","_","c","a","r","e","_","c","l","i","n","i","c">> >>],
    [id |-> "p2", name |-> <<"P","i","z","z","a">>,
     website |-> <<>>, types |-> << <<"r","e","s","t","a","u","r","a","n","t">> >>] }

\* the nextPageToken the API returns with page k of query qi: the number of
\* the next page, or None after the last page
serverNextPageToken(qi, k) == IF k < numPages[qi] THEN k + 1 ELSE None

\* the page a request asks for
pageOfRequest(token) == IF token = None THEN 1 ELSE token

(***************************************************************************)
(* Pure parts of the collectors.                                           *)
(***************************************************************************)
\* Math.ceil(1000 / QPS)
gateSleepFloor(qps) == 1000 \div qps
gateSleepMs(qps) == (1000 + qps - 1) \div qps

\* gate: if (REQUESTS > MAX_REQUESTS) throw
capHitOffByOne(requests, max) == requests > max + 1
capHit(requests, max) == requests > max

\* the places of the catalogue each classifier accepts (the classifiers are
\* pure: their verdicts are computed once)
Accepted6 == {p \in Catalogue : acceptByDermHeuristics6(p)}
Accepted7 == {p \in Catalogue : acceptByDermHeuristics7(p)}
NameExcluded == {p \in Catalogue : hasExcludeTerm(toLowerCase(p.name))}

\* acceptByDermHeuristics of the running script
acceptByDermHeuristics(place) ==
  IF script = "part_007" THEN place \in Accepted7 ELSE place \in Accepted6

\* collectState: if (id && !seen.has(id))
isNewNoSeenCheck(id, seenIds) == id # NoId
isNew(id, seenIds) == id # NoId /\ id \notin seenIds

\* toClinic, the fields the claims read
toClinic(p) ==
  [place_id |-> p.id, display_name |-> p.name, website |-> p.website,
   types |-> p.types]

\* the page token after a page was processed
\*   part_006 line 156:  pageToken = data.nextPageToken || undefined
\*   part_007 line 289:  pageToken = pageToken ?? (data.nextPageToken || undefined)
nextPageTokenAfter(token, dataNext) ==
  IF script = "part_007" /\ token # None THEN token ELSE dataNext

\* history only: why a place returned by the API added no clinic
skipKind(p) ==
  IF acceptByDermHeuristics(p)
    THEN IF p.id = NoId THEN "noid" ELSE "duplicate"
    ELSE IF p \in NameExcluded THEN "excluded" ELSE "other"

\* a main that would break only on the request cap
stopsOnRequestCapOnly(msg) ==
  /\ script = "part_007"
  /\ msg = "Daily request cap hit"

\* main's catch: does this message stop the collection (part_007 only)
stopsCollection(msg) ==
  /\ script = "part_007"
  /\ msg \in {"Global clinic cap hit", "Daily request cap hit"}

(***************************************************************************)
(* Initial state: the script has read its environment, main has not yet    *)
(* entered its loop.                                                       *)
(***************************************************************************)
StateLists == { <<"AL">>, <<"AL", "AK">> }
\* values of PLACES_MAX_REQUESTS, PLACES_MAX_CLINICS_PER_STATE and
\* PLACES_MAX_CLINICS_GLOBAL that are tried
RequestCaps == {1, MaxRequestCap}
PerStateCaps == {0, 1, 2}
GlobalCaps == {0, 2}
\* the numbers of pages a query can have
PageCounts == 1..MaxPages

InitCollect ==
  /\ script \in {"part_006", "part_007"}
  /\ states \in StateLists
  /\ numPages \in [1..NUM_QUERIES -> PageCounts]
  /\ MAX_REQUESTS \in RequestCaps
  /\ MAX_CLINICS_PER_STATE \in (IF script = "part_007" THEN PerStateCaps ELSE {0})
  /\ MAX_CLINICS_GLOBAL \in (IF script = "part_007" THEN GlobalCaps ELSE {0})
  /\ QPS = 3
  /\ NEXT_PAGE_DELAY_MS = 1200
  /\ REQUESTS = 0
  /\ GLOBAL_CLINICS = 0
  /\ pc = "main"
  /\ st = 0
  /\ seen = {}
  /\ clinics = <<>>
  /\ q = 1
  /\ pageToken = None
  /\ data = [nextPageToken |-> None]
  /\ placeNo = 0
  /\ inflight = 0
  /\ reqToken = None
  /\ files = [s \in {states[i] : i \in 1..Len(states)} |-> NoFile]
  /\ slept = <<>>
  /\ sent = 0
  /\ qReq = 0
  /\ lastNext = None
  /\ sentIn = [i \in 1..Len(states) |-> 0]
  /\ outcome = [i \in 1..Len(states) |-> "none"]
  /\ lastError = ""
  /\ lastSkip = ""

(***************************************************************************)
(* Actions of the collectors.                                              *)
(***************************************************************************)
\* an error leaves collectState and reaches main's catch
Caught(msg) ==
  /\ lastError' = msg
  /\ outcome' = [outcome EXCEPT ![st] = msg]
  /\ pc' = IF stopsCollection(msg) THEN "done" ELSE "main"

\* main: for (const st of states) { try { await collectState(st) } ... }
\* collectState starts with an empty seen set and clinics array
MainNext ==
  /\ UNCHANGED notCollect
  /\ pc = "main"
  /\ IF st < Len(states)
       THEN /\ st' = st + 1
            /\ seen' = {}
            /\ clinics' = <<>>
            /\ q' = 1
            /\ pageToken' = None
            /\ qReq' = 0
            /\ lastNext' = None
            /\ pc' = "gate"
       ELSE /\ pc' = "done"
            /\ UNCHANGED <<st, seen, clinics, q, pageToken, qReq, lastNext>>
  /\ UNCHANGED <<envVars, lastSkip, REQUESTS, GLOBAL_CLINICS, data, placeNo, inflight,
                 reqToken, files, slept, sent, sentIn, outcome, lastError>>

\* searchTextOnce -> gate: count the call, refuse it over the cap, else pace
Gate ==
  /\ UNCHANGED notCollect
  /\ pc = "gate"
  /\ REQUESTS' = REQUESTS + 1
  /\ IF capHit(REQUESTS', MAX_REQUESTS)
       THEN /\ Caught("Daily request cap hit")
            /\ UNCHANGED slept
       ELSE /\ slept' = Append(slept, gateSleepMs(QPS))
            /\ pc' = "send"
            /\ UNCHANGED <<outcome, lastError>>
  /\ UNCHANGED <<envVars, lastSkip, GLOBAL_CLINICS, st, seen, clinics, q, pageToken,
                 data, placeNo, inflight, reqToken, files, sent, qReq,
                 lastNext, sentIn>>

\* searchTextOnce: fetch(...) with body.pageToken = pageToken when it is set
SendRequest ==
  /\ UNCHANGED notCollect
  /\ pc = "send"
  /\ inflight' = inflight + 1
  /\ reqToken' = pageToken
  /\ sent' = sent + 1
  /\ qReq' = qReq + 1
  /\ sentIn' = [sentIn EXCEPT ![st] = @ + 1]
  /\ pc' = "await"
  /\ UNCHANGED <<envVars, lastSkip, REQUESTS, GLOBAL_CLINICS, st, seen, clinics, q,
                 pageToken, data, placeNo, files, slept, lastNext, outcome,
                 lastError>>

\* the response arrives with res.ok: data = await res.json()
ReceiveOk ==
  /\ UNCHANGED notCollect
  /\ pc = "await"
  /\ inflight' = inflight - 1
  /\ data' = [nextPageToken |->
                serverNextPageToken(q, pageOfRequest(reqToken))]
  /\ lastNext' = data'.nextPageToken
  /\ placeNo' = 0
  /\ slept' = <<>>
  /\ pc' = "places"
  /\ UNCHANGED <<envVars, lastSkip, REQUESTS, GLOBAL_CLINICS, st, seen, clinics, q,
                 pageToken, reqToken, files, sent, qReq, sentIn, outcome,
                 lastError>>

\* the response arrives with !res.ok (or fetch rejects): searchTextOnce throws
ReceiveFail ==
  /\ UNCHANGED notCollect
  /\ pc = "await"
  /\ inflight' = inflight - 1
  /\ slept' = <<>>
  /\ Caught("searchText failed")
  /\ UNCHANGED <<envVars, lastSkip, REQUESTS, GLOBAL_CLINICS, st, seen, clinics, q,
                 pageToken, data, placeNo, reqToken, files, sent, qReq,
                 lastNext, sentIn>>

\* one iteration of  for (const p of places)  in part_006
ProcessPlace6 ==
  /\ UNCHANGED notCollect
  /\ pc = "places"
  /\ script = "part_006"
  /\ placeNo < MaxPlacesPerPage
  /\ \E p \in Catalogue :
       /\ placeNo' = placeNo + 1
       /\ IF acceptByDermHeuristics(p) /\ isNew(p.id, seen)
            THEN /\ seen' = seen \cup {p.id}
                 /\ clinics' = Append(clinics, toClinic(p))
                 /\ lastSkip' = ""
            ELSE /\ lastSkip' = skipKind(p)
                 /\ UNCHANGED <<seen, clinics>>
  /\ UNCHANGED <<envVars, REQUESTS, GLOBAL_CLINICS, pc, st, q, pageToken,
                 data, inflight, reqToken, files, slept, sent, qReq,
                 lastNext, sentIn, outcome, lastError>>

\* one iteration of  for (const p of places)  in part_007, with its caps
ProcessPlace7 ==
  /\ UNCHANGED notCollect
  /\ pc = "places"
  /\ script = "part_007"
  /\ placeNo < MaxPlacesPerPage
  /\ \E p \in Catalogue :
       /\ placeNo' = placeNo + 1
       /\ IF acceptByDermHeuristics(p) /\ isNew(p.id, seen)
            THEN /\ seen' = seen \cup {p.id}
                 /\ clinics' = Append(clinics, toClinic(p))
                 /\ GLOBAL_CLINICS' = GLOBAL_CLINICS + 1
                 /\ IF /\ MAX_CLINICS_PER_STATE # 0
                       /\ Len(clinics') >= MAX_CLINICS_PER_STATE
                      THEN \* pageToken = undefined; break
                           /\ pageToken' = None
                           /\ pc' = "paged"
                           /\ UNCHANGED <<outcome, lastError>>
                    ELSE IF /\ MAX_CLINICS_GLOBAL # 0
                            /\ GLOBAL_CLINICS' >= MAX_CLINICS_GLOBAL
                      THEN /\ Caught("Global clinic cap hit")
                           /\ UNCHANGED pageToken
                    ELSE UNCHANGED <<pageToken, pc, outcome, lastError>>
                 /\ lastSkip' = ""
            ELSE /\ lastSkip' = skipKind(p)
                 /\ UNCHANGED <<seen, clinics, GLOBAL_CLINICS, pageToken, pc,
                                outcome, lastError>>
  /\ UNCHANGED <<envVars, REQUESTS, st, q, data, inflight, reqToken, files,
                 slept, sent, qReq, lastNext, sentIn>>

\* data.places has no further element: the for loop over places ends
EndOfPlaces ==
  /\ UNCHANGED notCollect
  /\ pc = "places"
  /\ pc' = "paged"
  /\ lastSkip' = ""
  /\ UNCHANGED <<envVars, REQUESTS, GLOBAL_CLINICS, st, seen, clinics, q,
                 pageToken, data, placeNo, inflight, reqToken, files, slept,
                 sent, qReq, lastNext, sentIn, outcome, lastError>>

\* after the places loop: compute the next page token; with a token, sleep
\* NEXT_PAGE_DELAY_MS and run the do-while body again; without one, go on to
\* the next query (a fresh pageToken) or to the write
AfterPage ==
  /\ UNCHANGED notCollect
  /\ pc = "paged"
  /\ LET t == nextPageTokenAfter(pageToken, data.nextPageToken) IN
       IF t # None
         THEN /\ pageToken' = t
              /\ slept' = Append(slept, NEXT_PAGE_DELAY_MS)
              /\ pc' = "gate"
              /\ UNCHANGED <<q, qReq, lastNext>>
         ELSE /\ pageToken' = None
              /\ UNCHANGED slept
              /\ IF q < NUM_QUERIES
                   THEN /\ q' = q + 1
                        /\ qReq' = 0
                        /\ lastNext' = None
                        /\ pc' = "gate"
                   ELSE /\ pc' = "write"
                        /\ UNCHANGED <<q, qReq, lastNext>>
  /\ UNCHANGED <<envVars, lastSkip, REQUESTS, GLOBAL_CLINICS, st, seen, clinics, data,
                 placeNo, inflight, reqToken, files, sent, sentIn, outcome,
                 lastError>>

\* fs.writeFile(outPath, JSON.stringify(payload)) and return to main
WriteFile ==
  /\ UNCHANGED notCollect
  /\ pc = "write"
  /\ files' = [files EXCEPT ![states[st]] = clinics]
  /\ outcome' = [outcome EXCEPT ![st] = "written"]
  /\ pc' = "main"
  /\ UNCHANGED <<envVars, lastSkip, REQUESTS, GLOBAL_CLINICS, st, seen, clinics, q,
                 pageToken, data, placeNo, inflight, reqToken, slept, sent,
                 qReq, lastNext, sentIn, lastError>>

NextCollect ==
  \/ MainNext
  \/ Gate
  \/ SendRequest
  \/ ReceiveOk
  \/ ReceiveFail
  \/ ProcessPlace6
  \/ ProcessPlace7
  \/ EndOfPlaces
  \/ AfterPage
  \/ WriteFile

\* the text-search collectors do not run
IdleCollect ==
  /\ script = "none"
  /\ states = <<>>
  /\ numPages = <<>>
  /\ MAX_REQUESTS = 0
  /\ MAX_CLINICS_PER_STATE = 0
  /\ MAX_CLINICS_GLOBAL = 0
  /\ QPS = 3
  /\ NEXT_PAGE_DELAY_MS = 1200
  /\ REQUESTS = 0
  /\ GLOBAL_CLINICS = 0
  /\ pc = "idle"
  /\ st = 0
  /\ seen = {}
  /\ clinics = <<>>
  /\ q = 1
  /\ pageToken = None
  /\ data = [nextPageToken |-> None]
  /\ placeNo = 0
  /\ inflight = 0
  /\ reqToken = None
  /\ files = <<>>
  /\ slept = <<>>
  /\ sent = 0
  /\ qReq = 0
  /\ lastNext = None
  /\ sentIn = <<>>
  /\ outcome = <<>>
  /\ lastError = ""
  /\ lastSkip = ""

(***************************************************************************)
(* Part II: the Unsplash fetch script (src/unnamed/part_009).              *)
(***************************************************************************)
TOTAL == 50
PER_PAGE == 30
CONCURRENCY == 5

\* Math.ceil(TOTAL / PER_PAGE)
pagesNeeded == (TOTAL + PER_PAGE - 1) \div PER_PAGE

\* a photo of the search results: its id, and whether photo.urls gives a src
Photo(id) == [id |-> id, src |-> id # srcless]

\* the last element of rs that has this id (new Map(...) keeps the last value)
RECURSIVE lastWithId(_, _)
lastWithId(rs, id) ==
  IF rs[Len(rs)].id = id THEN rs[Len(rs)]
  ELSE lastWithId(SubSeq(rs, 1, Len(rs) - 1), id)

\* Array.from(new Map(results.map(r => [r.id, r])).values()): one element per
\* id, in the order the ids first occur
RECURSIVE dedupeFrom(_, _)
dedupeFrom(rs, ids) ==
  IF rs = <<>> THEN <<>>
  ELSE IF Head(rs).id \in ids THEN dedupeFrom(Tail(rs), ids)
  ELSE <<lastWithId(rs, Head(rs).id)>>
         \o dedupeFrom(Tail(rs), ids \cup {Head(rs).id})

\* .slice(0, n)
sliceTo(xs, n) == SubSeq(xs, 1, IF Len(xs) < n THEN Len(xs) ELSE n)

\* a runner that would let one task too many start
canStartOneMore(a, n, len) == a <= CONCURRENCY /\ n < len
\* the condition of runNext's while loop
canStart(a, n, len) == a < CONCURRENCY /\ n < len

\* runNext's while loop.  r = [active, next, task, resolved]; u = unique.
\* Starting task i runs it up to its first await: with a src the download
\* request goes out, without one the task returns at once.
RECURSIVE startTasks(_, _)
startTasks(r, u) ==
  IF canStart(r.active, r.next, Len(u))
    THEN startTasks(
           [r EXCEPT !.next = @ + 1,
                     !.active = @ + 1,
                     !.task[r.next + 1] =
                        IF u[r.next + 1].src THEN "fetching" ELSE "returned"],
           u)
    ELSE r

\* runNext
runNext(r, u) ==
  IF r.next >= Len(u) /\ r.active = 0
    THEN [r EXCEPT !.resolved = TRUE]
    ELSE startTasks(r, u)

\* the then-callbacks of the tasks that returned without a download run as
\* microtasks, oldest first: active--; runNext()
RECURSIVE drain(_, _)
drain(r, u) ==
  IF \E i \in 1..Len(u) : r.task[i] = "returned"
    THEN LET i == CHOOSE k \in 1..Len(u) :
                    /\ r.task[k] = "returned"
                    /\ \A j \in 1..(k - 1) : r.task[j] # "returned"
         IN drain(runNext([r EXCEPT !.task[i] = "skipped",
                                    !.active = @ - 1], u), u)
    ELSE r

\* a task's promise settles: .then / .catch runs  active--; runNext()
settled(r, u) == drain(runNext([r EXCEPT !.active = @ - 1], u), u)

\* the photo whose urls give no src: none, the first photo of the first
\* page, or a photo of the second page
SrclessIds == {0, 1, MaxResultsPerPage + 1}

\* the script has started: no request yet
InitUnsplash ==
  /\ upc = "search"
  /\ upage = 1
  /\ results = <<>>
  /\ unique = <<>>
  /\ task = <<>>
  /\ active = 0
  /\ next = 0
  /\ manifest = <<>>
  /\ savedFiles = {}
  /\ searching = 0
  /\ srcless \in SrclessIds
  /\ freshId = 1

\* the script does not run
IdleUnsplash ==
  /\ upc = "idle"
  /\ upage = 1
  /\ results = <<>>
  /\ unique = <<>>
  /\ task = <<>>
  /\ active = 0
  /\ next = 0
  /\ manifest = <<>>
  /\ savedFiles = {}
  /\ searching = 0
  /\ srcless = 0
  /\ freshId = 1

\* searchUnsplash(p): fetch(url, ...)
USearchSend ==
  /\ UNCHANGED notUnsplash
  /\ upc = "search"
  /\ searching' = searching + 1
  /\ upc' = "searching"
  /\ UNCHANGED <<upage, results, unique, task, active, next, manifest,
                 savedFiles, srcless, freshId>>

\* the search response is OK.  The page holds n photos not returned before,
\* after a repeat of the previous page's last photo when rep.  After the last
\* page: de-duplicate, slice, build the tasks and call runNext.
USearchOk ==
  /\ UNCHANGED notUnsplash
  /\ upc = "searching"
  /\ searching' = searching - 1
  /\ \E n \in 0..MaxResultsPerPage, rep \in BOOLEAN :
       LET again == IF rep /\ results # <<>>
                      THEN <<results[Len(results)]>> ELSE <<>>
           page  == again \o [i \in 1..n |-> Photo(freshId + i - 1)]
           all   == results \o page
           u     == sliceTo(dedupeFrom(all, {}), TOTAL)
           r0    == [active |-> 0, next |-> 0, resolved |-> FALSE,
                     task |-> [i \in 1..Len(u) |-> "pending"]]
           r     == drain(runNext(r0, u), u)
       IN
       /\ results' = all
       /\ freshId' = freshId + n
       /\ IF upage < pagesNeeded
            THEN /\ upage' = upage + 1
                 /\ upc' = "search"
                 /\ UNCHANGED <<unique, task, active, next>>
            ELSE /\ UNCHANGED upage
                 /\ unique' = u
                 /\ IF Len(u) = 0
                      THEN /\ upc' = "exit1"
                           /\ UNCHANGED <<task, active, next>>
                      ELSE /\ task' = r.task
                           /\ active' = r.active
                           /\ next' = r.next
                           /\ upc' = IF r.resolved THEN "manifest"
                                                   ELSE "downloading"
  /\ UNCHANGED <<manifest, savedFiles, srcless>>

\* the search response is not OK: searchUnsplash throws, main().catch exits
USearchFail ==
  /\ UNCHANGED notUnsplash
  /\ upc = "searching"
  /\ searching' = searching - 1
  /\ upc' = "exit1"
  /\ UNCHANGED <<upage, results, unique, task, active, next, manifest,
                 savedFiles, srcless, freshId>>

\* downloadToFile of task i: the response is OK and its body was read;
\* fsp.writeFile starts
UDownloadOk ==
  /\ UNCHANGED notUnsplash
  /\ upc = "downloading"
  /\ \E i \in 1..Len(unique) :
       /\ task[i] = "fetching"
       /\ task' = [task EXCEPT ![i] = "writing"]
  /\ UNCHANGED <<upc, upage, results, unique, active, next, manifest,
                 savedFiles, searching, srcless, freshId>>

\* downloadToFile of task i throws 'Download failed': the .catch callback
UDownloadFail ==
  /\ UNCHANGED notUnsplash
  /\ upc = "downloading"
  /\ \E i \in 1..Len(unique) :
       /\ task[i] = "fetching"
       /\ LET r == settled([active |-> active, next |-> next,
                            resolved |-> FALSE,
                            task |-> [task EXCEPT ![i] = "failed"]], unique)
          IN /\ task' = r.task
             /\ active' = r.active
             /\ next' = r.next
             /\ upc' = IF r.resolved THEN "manifest" ELSE "downloading"
  /\ UNCHANGED <<upage, results, unique, manifest, savedFiles, searching,
                 srcless, freshId>>

\* fsp.writeFile of task i is done: manifest.push, then the .then callback
UWriteDone ==
  /\ UNCHANGED notUnsplash
  /\ upc = "downloading"
  /\ \E i \in 1..Len(unique) :
       /\ task[i] = "writing"
       /\ savedFiles' = savedFiles \cup {i}
       /\ manifest' = Append(manifest, i)
       /\ LET r == settled([active |-> active, next |-> next,
                            resolved |-> FALSE,
                            task |-> [task EXCEPT ![i] = "saved"]], unique)
          IN /\ task' = r.task
             /\ active' = r.active
             /\ next' = r.next
             /\ upc' = IF r.resolved THEN "manifest" ELSE "downloading"
  /\ UNCHANGED <<upage, results, unique, searching, srcless, freshId>>

\* the runner's promise resolved: write manifest.json
UWriteManifest ==
  /\ UNCHANGED notUnsplash
  /\ upc = "manifest"
  /\ upc' = "done"
  /\ UNCHANGED <<upage, results, unique, task, active, next, manifest,
                 savedFiles, searching, srcless, freshId>>

NextUnsplash ==
  \/ USearchSend
  \/ USearchOk
  \/ USearchFail
  \/ UDownloadOk
  \/ UDownloadFail
  \/ UWriteDone
  \/ UWriteManifest

(***************************************************************************)
(* Part III: the home page, client-side-search version                     *)
(* (src/app/page.tsx, lines 1-291).                                        *)
(***************************************************************************)
\* The clinics the API can return.  rating is in tenths of a star, 0 when the
\* field is missing; a missing website, phone or state_code is the empty
\* text (both are falsy); a missing boolean field is "undefined".
HomeCatalogue ==
  <<
    [ place_id |-> 1,
      display_name |-> <<"A","c","n","e"," ","D","e","r","m">>,
      formatted_address |->
          <<"1"," ","M","a","i","n"," ","S","t",","," ","M","o",
                    "b","i","l","e",","," ","A","L">>,
      types |-> << <<"d","o","c","t","o","r">>, <<"h","e","a","l","t","h">> >>,
      primary_type |-> <<"d","o","c","t","o","r">>,
      rating |-> 30,
      user_rating_count |-> 12,
      website |-> <<"a",".","c","o">>,
      phone |-> <<>>,
      wheelchair_accessible_entrance |-> "true",
      free_parking_lot |-> "false",
      current_open_now |-> "true",
      opening_hours_open_now |-> "undefined",
      state_code |-> "AL" ],
    [ place_id |-> 2,
      display_name |->
          <<"S","k","i","n"," ","C","a","n","c","e","r"," ","C",
                    "e","n","t","e","r">>,
      formatted_address |->
          <<"2"," ","O","a","k"," ","A","v","e",","," ","J","u",
                    "n","e","a","u",","," ","A","K">>,
      types |->
          << <<"s","k","i","n","_","c","a","r","e","_",
               "c","l","i","n","i","c">> >>,
      primary_type |->
          <<"s","k","i","n","_","c","a","r","e","_","c","l","i","n","i","c">>,
      rating |-> 45,
      user_rating_count |-> 7,
      website |-> <<" ">>,
      phone |-> <<"5","5","5">>,
      wheelchair_accessible_entrance |-> "undefined",
      free_parking_lot |-> "true",
      current_open_now |-> "false",
      opening_hours_open_now |-> "true",
      state_code |-> "AK" ],
    [ place_id |-> 3,
      display_name |-> <<"d","e","r","m"," ","p","l","u","s">>,
      formatted_address |->
          <<"3"," ","E","l","m"," ","R","d",","," ","M","o","b",
                    "i","l","e",","," ","A","L">>,
      types |-> << <<"d","o","c","t","o","r">> >>,
      primary_type |-> <<"d","o","c","t","o","r">>,
      rating |-> 0,
      user_rating_count |-> 0,
      website |-> <<>>,
      phone |-> <<"5","5","6">>,
      wheelchair_accessible_entrance |-> "true",
      free_parking_lot |-> "true",
      current_open_now |-> "undefined",
      opening_hours_open_now |-> "undefined",
      state_code |-> "" ]
  >>

\* the clinic a list element stands for
HC(i) == HomeCatalogue[i]

\* UTF-16 code order of the characters that occur in names
CODE_ORDER ==
  <<"\n"," ",",","0","1","2","3","4","5","6","7","8","9">> \o UPPER
    \o <<"_">> \o LOWER
charCode(c) == CHOOSE i \in 1..Len(CODE_ORDER) : CODE_ORDER[i] = c

\* a < b on strings
RECURSIVE strLess(_, _)
strLess(a, b) ==
  IF b = <<>> THEN FALSE
  ELSE IF a = <<>> THEN TRUE
  ELSE IF Head(a) = Head(b) THEN strLess(Tail(a), Tail(b))
  ELSE charCode(Head(a)) < charCode(Head(b))

isSpace(c) == c = " " \/ c = "\n"

\* String.prototype.trim
RECURSIVE trim(_)
trim(s) ==
  IF s = <<>> THEN s
  ELSE IF isSpace(Head(s)) THEN trim(Tail(s))
  ELSE IF isSpace(s[Len(s)]) THEN trim(SubSeq(s, 1, Len(s) - 1))
  ELSE s

\* handleSearch: the template literal searchableText, lower-cased
searchableText(c) ==
  toLowerCase(
    <<"\n"," "," "," "," "," "," "," "," ">> \o c.display_name \o
    <<" ","\n"," "," "," "," "," "," "," "," ">> \o c.formatted_address \o
    <<" ","\n"," "," "," "," "," "," "," "," ">> \o join(c.types) \o
    <<"\n"," "," "," "," "," "," "," "," ">> \o c.primary_type \o
    <<"\n"," "," "," "," "," "," ">>)

\* handleSearch: what setFilteredClinics receives
searchResult(cs, query) ==
  IF query = <<>> \/ trim(query) = <<>>
    THEN cs
    ELSE SelectSeq(cs, LAMBDA i :
                         includes(searchableText(HC(i)), toLowerCase(query)))

\* applyFilters: the seven filter callbacks, each under its guard
passesRating(c, f) == f.rating_min # 0 => c.rating >= f.rating_min
passesWebsite(c, f) == f.has_website => trim(c.website) # <<>>
passesPhone(c, f) == f.has_phone => trim(c.phone) # <<>>
passesWheelchair(c, f) ==
  f.wheelchair_accessible => c.wheelchair_accessible_entrance = "true"
passesParking(c, f) == f.free_parking => c.free_parking_lot = "true"
passesOpenNow(c, f) ==
  f.open_now =>
    (c.current_open_now = "true" \/ c.opening_hours_open_now = "true")
passesStates(c, f) ==
  Len(f.states) > 0 =>
    (c.state_code # "" /\ arrayIncludes(f.states, c.state_code))

\* applyFilters: a < b on the sort key
sortKeyLess(a, b, f) ==
  CASE f.sort_by = "rating" -> a.rating < b.rating
    [] f.sort_by = "reviews" -> a.user_rating_count < b.user_rating_count
    [] f.sort_by = "name" ->
         strLess(toLowerCase(a.display_name), toLowerCase(b.display_name))
    [] OTHER -> FALSE

\* applyFilters: the comparator given to filtered.sort
compareClinics(a, b, f) ==
  IF f.sort_by \notin {"rating", "reviews", "name"} THEN 0
  ELSE IF f.sort_order = "asc"
    THEN (IF sortKeyLess(a, b, f) THEN -1
          ELSE IF sortKeyLess(b, a, f) THEN 1 ELSE 0)
    ELSE (IF sortKeyLess(b, a, f) THEN -1
          ELSE IF sortKeyLess(a, b, f) THEN 1 ELSE 0)

\* Array.prototype.sort is stable: x goes behind every element that does not
\* compare greater
insertSorted(sorted, x, f) ==
  LET k == Cardinality({i \in 1..Len(sorted) :
                          compareClinics(HC(sorted[i]), HC(x), f) <= 0})
  IN SubSeq(sorted, 1, k) \o <<x>> \o SubSeq(sorted, k + 1, Len(sorted))

RECURSIVE sortClinics(_, _)
sortClinics(cs, f) ==
  IF cs = <<>> THEN <<>>
  ELSE insertSorted(sortClinics(SubSeq(cs, 1, Len(cs) - 1), f),
                    cs[Len(cs)], f)

\* applyFilters: what setFilteredClinics receives
applyFilters(cs, f) ==
  LET f1 == SelectSeq(cs, LAMBDA i : passesRating(HC(i), f))
      f2 == SelectSeq(f1, LAMBDA i : passesWebsite(HC(i), f))
      f3 == SelectSeq(f2, LAMBDA i : passesPhone(HC(i), f))
      f4 == SelectSeq(f3, LAMBDA i : passesWheelchair(HC(i), f))
      f5 == SelectSeq(f4, LAMBDA i : passesParking(HC(i), f))
      f6 == SelectSeq(f5, LAMBDA i : passesOpenNow(HC(i), f))
      f7 == SelectSeq(f6, LAMBDA i : passesStates(HC(i), f))
  IN IF f.sort_by # "" THEN sortClinics(f7, f) ELSE f7

\* useState<FilterOptions>({})
NoFilters ==
  [ rating_min |-> 0, has_website |-> FALSE, has_phone |-> FALSE,
    wheelchair_accessible |-> FALSE, free_parking |-> FALSE,
    open_now |-> FALSE, states |-> <<>>, sort_by |-> "", sort_order |-> "" ]

\* the values FilterPanel hands to onFilterChange
FilterChoices ==
  { NoFilters,
    [NoFilters EXCEPT !.rating_min = 40],
    [NoFilters EXCEPT !.has_website = TRUE],
    [NoFilters EXCEPT !.has_phone = TRUE],
    [NoFilters EXCEPT !.wheelchair_accessible = TRUE],
    [NoFilters EXCEPT !.free_parking = TRUE],
    [NoFilters EXCEPT !.open_now = TRUE],
    [NoFilters EXCEPT !.states = <<"AL">>],
    [NoFilters EXCEPT !.sort_by = "rating", !.sort_order = "desc"],
    [NoFilters EXCEPT !.sort_by = "name", !.sort_order = "asc"],
    [NoFilters EXCEPT !.rating_min = 40, !.states = <<"AK", "AL">>,
                      !.sort_by = "reviews", !.sort_order = "asc"] }

\* the queries SearchBar hands to onSearch: typed text and the quick filters
Queries ==
  { <<>>, <<" ">>, <<"a","c","n","e">>, <<"D","e","r","m">>,
    <<"s","k","i","n"," ","c","a","n","c","e","r">> }

\* the rows the API returns for the home page
HomeDbs == { <<>>, <<1>>, <<1, 2, 3>>, <<3, 2, 1>> }

\* the page is mounted: the mount effects ran (loadClinics sent its request,
\* applyFilters filtered the empty list)
InitHome ==
  /\ hpc = "fetching"
  /\ hdb \in HomeDbs
  /\ hclinics = <<>>
  /\ filteredClinics = <<>>
  /\ hloading = TRUE
  /\ filters = NoFilters
  /\ lastQuery = <<>>

\* the page is not mounted
IdleHome ==
  /\ hpc = "idle"
  /\ hdb = <<>>
  /\ hclinics = <<>>
  /\ filteredClinics = <<>>
  /\ hloading = TRUE
  /\ filters = NoFilters
  /\ lastQuery = <<>>

\* loadClinics after the response: setClinics, setFilteredClinics,
\* setLoading(false); then the [clinics, filters] effect runs applyFilters
HLoaded(loadedClinics) ==
  /\ UNCHANGED notHome
  /\ hpc = "fetching"
  /\ hpc' = "ready"
  /\ hclinics' = loadedClinics
  /\ filteredClinics' = applyFilters(loadedClinics, filters)
  /\ hloading' = FALSE
  /\ UNCHANGED <<hdb, filters, lastQuery>>

\* the API answers with the rows
HLoadOk == HLoaded(hdb)

\* the API answers 500 { error }: data.clinics || [] is []
HLoadApiError == HLoaded(<<>>)

\* fetch rejects: catch, finally setLoading(false)
HLoadRejected ==
  /\ UNCHANGED notHome
  /\ hpc = "fetching"
  /\ hpc' = "ready"
  /\ hloading' = FALSE
  /\ UNCHANGED <<hdb, hclinics, filteredClinics, filters, lastQuery>>

\* FilterPanel calls onFilterChange = setFilters; then the
\* [clinics, filters] effect runs applyFilters
HSetFilters ==
  /\ UNCHANGED notHome
  /\ hpc \in {"fetching", "ready"}
  /\ \E f \in FilterChoices :
       /\ filters' = f
       /\ filteredClinics' = applyFilters(hclinics, f)
  /\ UNCHANGED <<hpc, hdb, hclinics, hloading, lastQuery>>

\* SearchBar calls onSearch = handleSearch
HSearch ==
  /\ UNCHANGED notHome
  /\ hpc \in {"fetching", "ready"}
  /\ \E query \in Queries :
       /\ lastQuery' = query
       /\ filteredClinics' = searchResult(hclinics, query)
  /\ UNCHANGED <<hpc, hdb, hclinics, hloading, filters>>

NextHome ==
  \/ HLoadOk
  \/ HLoadApiError
  \/ HLoadRejected
  \/ HSetFilters
  \/ HSearch

\* the clinics the page shows: none while loading
displayedClinics == IF hloading THEN <<>> ELSE filteredClinics

(***************************************************************************)
(* Part IV: the clinic detail page (src/unnamed/part_003) and the route    *)
(* GET /api/clinics (src/unnamed/part_004).                                *)
(***************************************************************************)
\* GET: parseInt(searchParams.get('page') || '1')
DEFAULT_PAGE == 1
\* GET: parseInt(searchParams.get('per_page') || '500')
DEFAULT_PER_PAGE == 500

\* row i of the clinics table holds the clinic with place_id i
placeIdOfRow(i) == i

\* supabase .range(from, to): rows from..to, counted from 0, that exist
range(n, from, to) ==
  LET last == IF to + 1 < n THEN to + 1 ELSE n
  IN [k \in 1..(IF last > from THEN last - from ELSE 0) |->
        placeIdOfRow(from + k)]

\* GET without query parameters: the clinics of the JSON body
GET(n) ==
  LET page    == DEFAULT_PAGE
      perPage == DEFAULT_PER_PAGE
      from    == (page - 1) * perPage
      to      == from + perPage - 1
  IN range(n, from, to)

\* data.clinics?.find(c => c.place_id === clinicId) || null
find(cs, id) == IF \E k \in 1..Len(cs) : cs[k] = id THEN id ELSE None

\* route ids that are tried
RouteIds ==
  {1, 2, DEFAULT_PER_PAGE - 1, DEFAULT_PER_PAGE, DEFAULT_PER_PAGE + 1,
   MaxRows, MaxRows + 1}

\* the page is mounted for route /clinics/<clinicId>
InitDetail ==
  /\ dpc = "mounted"
  /\ rows \in 0..MaxRows
  /\ clinicId \in RouteIds
  /\ clinic = None
  /\ dloading = TRUE
  /\ response = ""

\* the page is not mounted
IdleDetail ==
  /\ dpc = "idle"
  /\ rows = 0
  /\ clinicId = 1
  /\ clinic = None
  /\ dloading = TRUE
  /\ response = ""

\* the [clinicId] effect: loadClinicDetails up to its fetch
DFetch ==
  /\ UNCHANGED notDetail
  /\ dpc = "mounted"
  /\ dpc' = "fetching"
  /\ dloading' = TRUE
  /\ UNCHANGED <<rows, clinicId, clinic, response>>

\* the route answers with { clinics, total, page, per_page }
DResponseOk ==
  /\ UNCHANGED notDetail
  /\ dpc = "fetching"
  /\ dpc' = "settled"
  /\ response' = "ok"
  /\ clinic' = find(GET(rows), clinicId)
  /\ dloading' = FALSE
  /\ UNCHANGED <<rows, clinicId>>

\* Supabase reports an error: the route answers 500 { error }, data.clinics
\* is undefined and setClinic(null) runs
DResponseError ==
  /\ UNCHANGED notDetail
  /\ dpc = "fetching"
  /\ dpc' = "settled"
  /\ response' = "error"
  /\ clinic' = None
  /\ dloading' = FALSE
  /\ UNCHANGED <<rows, clinicId>>

\* fetch rejects: catch, finally setLoading(false)
DRejected ==
  /\ UNCHANGED notDetail
  /\ dpc = "fetching"
  /\ dpc' = "settled"
  /\ response' = "rejected"
  /\ dloading' = FALSE
  /\ UNCHANGED <<rows, clinicId, clinic>>

NextDetail ==
  \/ DFetch
  \/ DResponseOk
  \/ DResponseError
  \/ DRejected

\* what the page renders
detailView ==
  IF dloading THEN "Loading clinic details..."
  ELSE IF clinic = None THEN "Clinic Not Found"
  ELSE "details"

(***************************************************************************)
(* Part V: needsRefresh (src/unnamed/part_000).                            *)
(* Time is counted in hours from 1 January 2025 00:00 UTC; a local time is *)
(* the same count on the zone's wall clock.                                *)
(***************************************************************************)
\* days of the months of 2025
MONTH_DAYS == <<31, 28, 31, 30, 31, 30, 31, 31, 30, 31, 30, 31>>

RECURSIVE daysBeforeMonth(_)
daysBeforeMonth(m) ==
  IF m <= 1 THEN 0 ELSE daysBeforeMonth(m - 1) + MONTH_DAYS[m - 1]

\* the zones the runtime is tried in
Zones == {"UTC", "America/New_York"}

\* America/New_York in 2025: daylight time from 9 March 07:00 UTC to
\* 2 November 06:00 UTC
DST_START == (daysBeforeMonth(3) + 8) * 24 + 7
DST_END == (daysBeforeMonth(11) + 1) * 24 + 6

\* hours the zone's wall clock is ahead of UTC at the instant t
offsetAt(z, t) ==
  IF z = "UTC" THEN 0
  ELSE IF t >= DST_START /\ t < DST_END THEN 0 - 4 ELSE 0 - 5

\* LocalTime(t)
localTime(z, t) == t + offsetAt(z, t)

\* UTC(local): a wall-clock reading that was skipped or repeated is read
\* with the offset in force before the change
utcOf(z, local) ==
  IF z = "UTC" THEN local
  ELSE IF local >= DST_START - 5 + 1 /\ local < DST_END - 4
    THEN local + 4
    ELSE local + 5

\* MonthFromTime, counted from 1
monthOf(day) ==
  CHOOSE m \in 1..12 :
    daysBeforeMonth(m) <= day /\ day < daysBeforeMonth(m) + MONTH_DAYS[m]

\* Date.prototype.getDate
getDate(z, t) ==
  LET day == localTime(z, t) \div 24
  IN day - daysBeforeMonth(monthOf(day)) + 1

\* Date.prototype.setDate: MakeDay(year, month, dt), the time within the day
\* kept, and back to UTC
setDate(z, t, dt) ==
  LET local == localTime(z, t)
      day   == local \div 24
      newDay == daysBeforeMonth(monthOf(day)) + dt - 1
  IN utcOf(z, newDay * 24 + (local % 24))

\* new Date(lastFetchedAt) of an ISO timestamp in UTC
parseDate(ts) == ts.day * 24 + ts.hour

\* Date.prototype.toISOString, to the hour
toISOString(t) == [day |-> t \div 24, hour |-> t % 24]

\* a comparison that would also report a timestamp equal to the threshold
notAfter(a, b) == a <= b
\* the comparison of needsRefresh
isBefore(a, b) == a < b

needsRefresh(ts, z, t) ==
  LET lastFetched == parseDate(ts)
      thirtyDaysAgo == setDate(z, t, getDate(z, t) - 30)
  IN isBefore(lastFetched, thirtyDaysAgo)

\* 30 days of 24 hours
THIRTY_DAYS == 30 * 24

\* ages of lastFetchedAt that are tried, in hours
Ages == (THIRTY_DAYS - AgeSpread)..(THIRTY_DAYS + AgeSpread)

\* needsRefresh is about to be called
InitRefresh ==
  /\ rpc = "call"
  /\ zone \in Zones
  /\ now \in (FirstDay * 24)..(LastDay * 24 + 23)
  /\ \E age \in Ages : lastFetchedAt = toISOString(now - age)
  /\ refresh = FALSE

\* needsRefresh is not called
IdleRefresh ==
  /\ rpc = "idle"
  /\ zone = "UTC"
  /\ now = 0
  /\ lastFetchedAt = toISOString(0)
  /\ refresh = FALSE

\* needsRefresh(lastFetchedAt) returns
RCall ==
  /\ UNCHANGED notRefresh
  /\ rpc = "call"
  /\ rpc' = "returned"
  /\ refresh' = needsRefresh(lastFetchedAt, zone, now)
  /\ UNCHANGED <<zone, now, lastFetchedAt>>

NextRefresh == RCall

(***************************************************************************)
(* Part VI.  getPhotoUrl of lib/googlePlaces (proxy version) and the       *)
(* query string it hands to app/api/photo/route.ts.                        *)
(***************************************************************************)

\* the digits of String(n), in order
DIGIT_CHARS == <<"0","1","2","3","4","5","6","7","8","9">>

\* String(n) for a non-negative integer n
RECURSIVE String(_)
String(n) ==
  IF n < 10 THEN <<DIGIT_CHARS[n + 1]>>
  ELSE String(n \div 10) \o <<DIGIT_CHARS[(n % 10) + 1]>>

\* String.prototype.startsWith
startsWith(s, prefix) ==
  /\ Len(s) >= Len(prefix)
  /\ \A k \in 1..Len(prefix) : s[k] = prefix[k]

\* the regular expression  /^https?:\/\//i
isFullUrl(s) ==
  \/ startsWith(toLowerCase(s), <<"h","t","t","p",":","/","/">>)
  \/ startsWith(toLowerCase(s), <<"h","t","t","p","s",":","/","/">>)

\* the characters application/x-www-form-urlencoded leaves alone
isUrlencodedSafe(c) ==
  \/ \E i \in 1..26 : UPPER[i] = c \/ LOWER[i] = c
  \/ c \in DIGITS
  \/ c \in {"*", "-", ".", "_"}

\* the percent-encoded bytes of the other characters the photo names use
PERCENT ==
  <<[c |-> "/", hex |-> <<"2","F">>], [c |-> ":", hex |-> <<"3","A">>],
    [c |-> "?", hex |-> <<"3","F">>], [c |-> "&", hex |-> <<"2","6">>],
    [c |-> "=", hex |-> <<"3","D">>], [c |-> "+", hex |-> <<"2","B">>],
    [c |-> "%", hex |-> <<"2","5">>], [c |-> "#", hex |-> <<"2","3">>]>>

\* URLSearchParams serialisation of one character
encodeChar(c) ==
  IF isUrlencodedSafe(c) THEN <<c>>
  ELSE IF c = " " THEN <<"+">>
  ELSE <<"%">> \o PERCENT[CHOOSE i \in 1..Len(PERCENT) : PERCENT[i].c = c].hex

\* URLSearchParams serialisation of a name or a value
RECURSIVE encode(_)
encode(s) ==
  IF s = <<>> THEN <<>> ELSE encodeChar(Head(s)) \o encode(Tail(s))

\* URLSearchParams.prototype.toString : name=value pairs joined by '&'
RECURSIVE toQueryString(_)
toQueryString(params) ==
  IF params = <<>> THEN <<>>
  ELSE encode(params[1].key) \o <<"=">> \o encode(params[1].value)
         \o (IF Len(params) > 1 THEN <<"&">> ELSE <<>>)
         \o toQueryString(Tail(params))

\* the direct version of getPhotoUrl: the media URL with the key in it
getPhotoUrlDirect(name, w, h) ==
  <<"h","t","t","p","s",":","/","/","p","l","a","c","e","s",".","g","o","o","g","l","e","a","p","i","s",".","c","o","m","/","v","1","/">> \o name \o <<"/","m","e","d","i","a">>
    \o <<"?","m","a","x","H","e","i","g","h","t","P","x","=">> \o String(h) \o <<"&","m","a","x","W","i","d","t","h","P","x","=">> \o String(w)
    \o <<"&","k","e","y","=">> \o placesKey

\* getPhotoUrl(photoName, maxWidth, maxHeight), proxy version
getPhotoUrl(name, w, h) ==
  IF isFullUrl(name) THEN name
  ELSE <<"/","a","p","i","/","p","h","o","t","o">> \o <<"?">>
         \o toQueryString(<<[key |-> <<"n","a","m","e">>, value |-> name],
                            [key |-> <<"w">>, value |-> String(w)],
                            [key |-> <<"h">>, value |-> String(h)]>>)

\* ---- the reading side: new URL(req.url).searchParams ----

\* the index of the first c in s, 0 when there is none
indexOf(s, c) ==
  IF \E i \in 1..Len(s) : s[i] = c
    THEN CHOOSE i \in 1..Len(s) : s[i] = c /\ \A j \in 1..(i - 1) : s[j] # c
    ELSE 0

\* URLSearchParams parsing of a name or a value: '+' is a space, %XX a byte
RECURSIVE decode(_)
decode(s) ==
  IF s = <<>> THEN <<>>
  ELSE IF s[1] = "+" THEN <<" ">> \o decode(Tail(s))
  ELSE IF /\ s[1] = "%"
          /\ Len(s) >= 3
          /\ \E i \in 1..Len(PERCENT) : PERCENT[i].hex = <<s[2], s[3]>>
    THEN <<PERCENT[CHOOSE i \in 1..Len(PERCENT) :
                      PERCENT[i].hex = <<s[2], s[3]>>].c>>
           \o decode(SubSeq(s, 4, Len(s)))
  ELSE <<s[1]>> \o decode(Tail(s))

\* one name=value pair of a query string
parsePair(s) ==
  LET eq == indexOf(s, "=") IN
    IF eq = 0 THEN [key |-> decode(s), value |-> <<>>]
    ELSE [key |-> decode(SubSeq(s, 1, eq - 1)),
          value |-> decode(SubSeq(s, eq + 1, Len(s)))]

\* the pairs of a query string, in order
RECURSIVE parseQuery(_)
parseQuery(qs) ==
  IF qs = <<>> THEN <<>>
  ELSE LET amp == indexOf(qs, "&") IN
    IF amp = 0 THEN <<parsePair(qs)>>
    ELSE (IF amp = 1 THEN <<>> ELSE <<parsePair(SubSeq(qs, 1, amp - 1))>>)
           \o parseQuery(SubSeq(qs, amp + 1, Len(qs)))

\* the path of a relative URL: what precedes the first '?'
pathOf(url) ==
  LET qm == indexOf(url, "?") IN
    IF qm = 0 THEN url ELSE SubSeq(url, 1, qm - 1)

\* the search parameters of a relative URL
searchParams(url) ==
  LET qm == indexOf(url, "?") IN
    IF qm = 0 THEN <<>> ELSE parseQuery(SubSeq(url, qm + 1, Len(url)))

\* the photo names the function is called with
PhotoNames ==
  { <<"p","l","a","c","e","s","/","p","1","/","p","h","o","t","o","s","/","r","1">>,
    <<"p","/","a"," ","b","&","w","=","9">>,
    <<"h","t","t","p","s",":","/","/","u",".","i","o","/","a",".","j","p","g">>,
    <<"H","T","T","P",":","/","/","u",".","i","o","/","b">>,
    <<"h","t","t","p",":","/","u",".","i","o">>,
    <<"x","h","t","t","p","s",":","/","/","u">>,
    <<>> }

\* the sizes the function is called with
Widths == {400, 800, 96}
Heights == {300, 400, 1200}

\* the values of GOOGLE_PLACES_API_KEY
Keys == { <<"A","I","z","a","K","1">>, <<"A","I","z","a","K","2">> }

InitPhoto ==
  /\ gpc = "call"
  /\ photoName \in PhotoNames
  /\ maxWidth \in Widths
  /\ maxHeight \in Heights
  /\ placesKey \in Keys
  /\ photoUrl = <<>>

\* getPhotoUrl does not run
IdlePhoto ==
  /\ gpc = "idle"
  /\ photoName = <<>>
  /\ maxWidth = 0
  /\ maxHeight = 0
  /\ placesKey = <<>>
  /\ photoUrl = <<>>

\* the call returns
GCall ==
  /\ UNCHANGED notPhoto
  /\ gpc = "call"
  /\ photoUrl' = getPhotoUrl(photoName, maxWidth, maxHeight)
  /\ gpc' = "returned"
  /\ UNCHANGED <<photoName, maxWidth, maxHeight, placesKey>>

\* the same call once more, in a process started with another key
GCallWithKey ==
  /\ UNCHANGED notPhoto
  /\ gpc = "returned"
  /\ \E k \in Keys \ {placesKey} : placesKey' = k
  /\ UNCHANGED <<gpc, photoName, maxWidth, maxHeight>>
  /\ photoUrl' = getPhotoUrl(photoName, maxWidth, maxHeight)'

NextPhoto == GCall \/ GCallWithKey

(***************************************************************************)
(* Part VII.  searchDermClinics and getClinicDetails of lib/googlePlaces   *)
(* (proxy version), with transformPlacesResponse and transformSinglePlace. *)
(***************************************************************************)
\* places in the body of one searchNearby response
MaxLibPlaces == 2

\* a value that is absent (undefined), and a truthy value of the wrong type
Absent == [kind |-> "absent"]
WrongType == [kind |-> "number"]
\* a string value, an array value
Str(text) == [kind |-> "string", text |-> text]
Arr(items) == [kind |-> "array", items |-> items]

\* the places a response may hold: JSON null, and objects
LibPlaces ==
  { [kind |-> "null"],
    [kind |-> "object", id |-> "p1", displayName |-> Str(<<"D","e","r","m"," ","C","e","n","t","e","r">>),
      types |-> Arr(<<"doctor">>), primaryType |-> "doctor", photos |-> Absent],
    [kind |-> "object", id |-> "p2", displayName |-> Str(<<"C","i","t","y"," ","D","e","n","t","a","l">>),
      types |-> Arr(<<"dentist">>), primaryType |-> "dentist",
      photos |-> Arr(<<"ph1">>)],
    [kind |-> "object", id |-> "p3", displayName |-> Absent,
      types |-> Absent, primaryType |-> "skin_care_clinic",
      photos |-> Arr(<<"ph3">>)],
    [kind |-> "object", id |-> "", displayName |-> Str(<<"S","k","i","n"," ","O","n","e">>),
      types |-> Arr(<<"skin_care_clinic">>), primaryType |-> "skin_care_clinic",
      photos |-> Absent],
    [kind |-> "object", id |-> "p5", displayName |-> WrongType,
      types |-> Arr(<<"skin_care_clinic">>), primaryType |-> "skin_care_clinic",
      photos |-> Absent],
    [kind |-> "object", id |-> "p6", displayName |-> Str(<<"A","c","m","e">>),
      types |-> WrongType, primaryType |-> "doctor", photos |-> Absent],
    [kind |-> "object", id |-> "p7", displayName |-> Str(<<"S","K","I","N"," ","L","a","b">>),
      types |-> Arr(<<"skin_care_clinic", "doctor">>), primaryType |-> "doctor",
      photos |-> WrongType] }

\* the outcome of an expression that throws a TypeError
TypeError == [kind |-> "TypeError"]
\* null
Null == [kind |-> "null"]

\* transformSinglePlace(place): a clinic, null, or a TypeError thrown
transformSinglePlace(place) ==
  IF place.kind = "null" \/ place.id = "" THEN Null
  ELSE
    LET types == IF place.types.kind = "absent" THEN Arr(<<>>) ELSE place.types
        displayName ==
          IF place.displayName.kind = "absent" THEN Str(<<>>)
          ELSE place.displayName
    IN
      IF displayName.kind # "string" THEN TypeError
      ELSE
        LET lower == toLowerCase(displayName.text) IN
          IF types.kind # "array" THEN TypeError
          ELSE
            LET isDermatology ==
                  \/ arrayIncludes(types.items, "skin_care_clinic")
                  \/ includes(lower, <<"d","e","r","m">>)
                  \/ includes(lower, <<"s","k","i","n">>)
                  \/ includes(lower, <<"d","e","r","m","a","t","o","l","o","g","y">>)
            IN
              IF ~isDermatology /\ place.primaryType # "skin_care_clinic"
                THEN Null
              ELSE IF place.photos.kind = "number" THEN TypeError
              ELSE [kind |-> "clinic",
                    place_id |-> place.id,
                    display_name |-> displayName.text,
                    primary_type |-> place.primaryType,
                    types |-> types.items]

\* transformPlacesResponse(places): map, then filter out null; a TypeError of
\* any element is thrown
RECURSIVE transformPlacesResponse(_)
transformPlacesResponse(places) ==
  IF places = <<>> THEN [kind |-> "list", value |-> <<>>]
  ELSE
    LET first == transformSinglePlace(Head(places))
        rest == transformPlacesResponse(Tail(places))
    IN
      IF first.kind = "TypeError" \/ rest.kind = "TypeError" THEN TypeError
      ELSE IF first.kind = "null" THEN rest
      ELSE [kind |-> "list", value |-> <<first>> \o rest.value]

\* the sequences of at most n places
RECURSIVE placeLists(_)
placeLists(n) ==
  IF n = 0 THEN {<<>>}
  ELSE placeLists(n - 1) \cup
       {Append(l, x) : l \in {m \in placeLists(n - 1) : Len(m) = n - 1},
                       x \in LibPlaces}

\* the bodies a searchNearby response may have
SearchBodies ==
  { [kind |-> "unparsable"], [kind |-> "null"],
    [kind |-> "object", places |-> Absent],
    [kind |-> "object", places |-> WrongType] }
  \cup {[kind |-> "object", places |-> Arr(l)] : l \in placeLists(MaxLibPlaces)}

\* the bodies a place details response may have
DetailsBodies ==
  {[kind |-> "unparsable"]} \cup {[kind |-> "place", place |-> x] : x \in LibPlaces}

\* searchDermClinics after response.json():
\* transformPlacesResponse(data.places || [])
placesOfBody(body) ==
  IF body.kind = "null" THEN TypeError
  ELSE IF body.places.kind = "absent" THEN transformPlacesResponse(<<>>)
  ELSE IF body.places.kind # "array" THEN TypeError
  ELSE transformPlacesResponse(body.places.items)

\* what the function's statements after response.json() evaluate to
afterJson(fn, body) ==
  IF fn = "searchDermClinics" THEN placesOfBody(body)
  ELSE transformSinglePlace(body.place)

\* what the catch block of the function returns
fallback(fn) ==
  IF fn = "searchDermClinics" THEN [kind |-> "list", value |-> <<>>] ELSE Null

\* a function whose API key test precedes its try block
insideTryButKeyTest(point) == point \in {"fetch", "status", "json", "transform"}

\* the statement at this point of the function is inside its try block
insideTry(point) == point \in {"key", "fetch", "status", "json", "transform"}

\* an exception at a point of the function: caught and answered with the
\* fallback value inside the try block, thrown to the caller outside of it
raise(point) ==
  /\ lfailure' = point
  /\ IF insideTry(point)
       THEN lpc' = "returned" /\ lresult' = fallback(lfn)
       ELSE lpc' = "threw" /\ lresult' = [kind |-> "none"]

InitLib ==
  /\ lpc = "start"
  /\ lfn \in {"searchDermClinics", "getClinicDetails"}
  /\ apiKey \in {<<>>} \cup Keys
  /\ lbody = [kind |-> "none"]
  /\ lresult = [kind |-> "none"]
  /\ lfailure = ""

\* searchDermClinics and getClinicDetails do not run
IdleLib ==
  /\ lpc = "idle"
  /\ lfn = ""
  /\ apiKey = <<>>
  /\ lbody = [kind |-> "none"]
  /\ lresult = [kind |-> "none"]
  /\ lfailure = ""

\* the function up to its await fetch: the key test, then the request
LStart ==
  /\ UNCHANGED notLib
  /\ lpc = "start"
  /\ IF apiKey = <<>>
       THEN raise("key")
       ELSE lpc' = "fetching" /\ UNCHANGED <<lresult, lfailure>>
  /\ UNCHANGED <<lfn, apiKey, lbody>>

\* fetch rejects: a network failure
LFetchRejected ==
  /\ UNCHANGED notLib
  /\ lpc = "fetching"
  /\ raise("fetch")
  /\ UNCHANGED <<lfn, apiKey, lbody>>

\* the response is not OK
LResponseNotOk ==
  /\ UNCHANGED notLib
  /\ lpc = "fetching"
  /\ raise("status")
  /\ UNCHANGED <<lfn, apiKey, lbody>>

\* the response is OK: response.json() starts
LResponseOk ==
  /\ UNCHANGED notLib
  /\ lpc = "fetching"
  /\ \E b \in (IF lfn = "searchDermClinics" THEN SearchBodies
                                              ELSE DetailsBodies) : lbody' = b
  /\ lpc' = "parsing"
  /\ UNCHANGED <<lfn, apiKey, lresult, lfailure>>

\* response.json() settles, and the rest of the try block runs
LJson ==
  /\ UNCHANGED notLib
  /\ lpc = "parsing"
  /\ IF lbody.kind = "unparsable" THEN raise("json")
     ELSE IF afterJson(lfn, lbody).kind = "TypeError" THEN raise("transform")
     ELSE /\ lpc' = "returned"
          /\ lresult' = afterJson(lfn, lbody)
          /\ UNCHANGED lfailure
  /\ UNCHANGED <<lfn, apiKey, lbody>>

NextLib ==
  \/ LStart
  \/ LFetchRejected
  \/ LResponseNotOk
  \/ LResponseOk
  \/ LJson

(***************************************************************************)
(* Part VIII.  The nearby-search collectors (part_005 and part_008):       *)
(* collectData, its loop over the states and their major cities.           *)
(***************************************************************************)
\* the states of US_STATES that are followed
MaxNearbyStates == 2

\* part_005: const MAX_DAILY_REQUESTS
MAX_DAILY_REQUESTS == 100

\* the rate-limiting delay: await delay(2000)
RATE_DELAY_MS == 2000

\* state.major_cities.length of US_STATES: CA, NY, TX, FL, IL
CITY_COUNTS == <<4, 3, 4, 4, 2>>

\* the states collectData loops over
NearbyStates == 1..(IF MaxNearbyStates < Len(CITY_COUNTS)
                      THEN MaxNearbyStates ELSE Len(CITY_COUNTS))

\* the place ids of the clinics one search returns, after
\* transformPlacesResponse
NearbyResults == {{}, {"n1"}, {"n1", "n2"}}

\* the state file was not written
NotWritten == {"not written"}

InitNearby ==
  /\ npc = "city"
  /\ nscript \in {"part_005", "part_008"}
  /\ nstate = 1
  /\ ncity = 1
  /\ requestCount = 0
  /\ stateClinics = {}
  /\ totalClinics = 0
  /\ nfiles = [i \in NearbyStates |-> NotWritten]
  /\ ninflight = 0
  /\ nsent = 0
  /\ nwaited = 0
  /\ nlast = ""

\* the loop over state.major_cities moves on: the next city, or the saving
\* of the state's file after the last one
nextCity ==
  IF ncity < CITY_COUNTS[nstate]
    THEN npc' = "city" /\ ncity' = ncity + 1
    ELSE npc' = "save" /\ ncity' = ncity

\* the loop over US_STATES moves on: the next state with an empty Map, or
\* the end of collectData
nextState ==
  /\ stateClinics' = {}
  /\ IF nstate + 1 \in NearbyStates
       THEN npc' = "city" /\ nstate' = nstate + 1 /\ ncity' = 1
       ELSE npc' = "done" /\ nstate' = nstate /\ ncity' = ncity

\* part_005: the request counter refuses the search
limitReached == nscript = "part_005" /\ requestCount >= MAX_DAILY_REQUESTS

\* searchDermClinics up to its await fetch: the request is sent, or (part_005)
\* the counter refuses it and [] is returned without a request
NSearch ==
  /\ UNCHANGED notNearby
  /\ npc = "city"
  /\ IF limitReached
       THEN /\ npc' = "delay"
            /\ UNCHANGED <<requestCount, ninflight, nsent>>
       ELSE /\ requestCount' =
                 IF nscript = "part_005" THEN requestCount + 1 ELSE requestCount
            /\ ninflight' = 1
            /\ nsent' = nsent + 1
            /\ npc' = "await"
  /\ UNCHANGED <<nscript, nstate, ncity, stateClinics, totalClinics, nfiles,
                 nwaited, nlast>>

\* the response is OK: its clinics are put into the Map, delay(2000) starts
NResponseOk ==
  /\ UNCHANGED notNearby
  /\ npc = "await"
  /\ \E found \in NearbyResults : stateClinics' = stateClinics \cup found
  /\ ninflight' = 0
  /\ nwaited' = 0
  /\ nlast' = "ok"
  /\ npc' = "delay"
  /\ UNCHANGED <<nscript, nstate, ncity, requestCount, totalClinics, nfiles,
                 nsent>>

\* the response is not OK, or fetch rejects: searchDermClinics throws and
\* the catch of the city loop logs the error
NResponseFail ==
  /\ UNCHANGED notNearby
  /\ npc = "await"
  /\ ninflight' = 0
  /\ nwaited' = 0
  /\ nlast' = "failed"
  /\ nextCity
  /\ UNCHANGED <<nscript, nstate, requestCount, stateClinics, totalClinics,
                 nfiles, nsent>>

\* await delay(2000) ends
NDelay ==
  /\ UNCHANGED notNearby
  /\ npc = "delay"
  /\ nwaited' = nwaited + RATE_DELAY_MS
  /\ nextCity
  /\ UNCHANGED <<nscript, nstate, requestCount, stateClinics, totalClinics,
                 nfiles, ninflight, nsent, nlast>>

\* stateClinics.size > 0 and writeFile succeeds
NWriteOk ==
  /\ UNCHANGED notNearby
  /\ npc = "save"
  /\ stateClinics # {}
  /\ nfiles' = [nfiles EXCEPT ![nstate] = stateClinics]
  /\ totalClinics' = totalClinics + Cardinality(stateClinics)
  /\ nextState
  /\ UNCHANGED <<nscript, requestCount, ninflight, nsent, nwaited, nlast>>

\* stateClinics.size > 0 and writeFile rejects: the error is logged
NWriteFail ==
  /\ UNCHANGED notNearby
  /\ npc = "save"
  /\ stateClinics # {}
  /\ nextState
  /\ UNCHANGED <<nscript, requestCount, totalClinics, nfiles, ninflight,
                 nsent, nwaited, nlast>>

\* stateClinics.size = 0: 'No clinics found'
NNoClinics ==
  /\ UNCHANGED notNearby
  /\ npc = "save"
  /\ stateClinics = {}
  /\ nextState
  /\ UNCHANGED <<nscript, requestCount, totalClinics, nfiles, ninflight,
                 nsent, nwaited, nlast>>

NextNearby ==
  \/ NSearch
  \/ NResponseOk
  \/ NResponseFail
  \/ NDelay
  \/ NWriteOk
  \/ NWriteFail
  \/ NNoClinics

\* the nearby-search collectors do not run
IdleNearby ==
  /\ npc = "idle"
  /\ nscript = "none"
  /\ nstate = 0
  /\ ncity = 0
  /\ requestCount = 0
  /\ stateClinics = {}
  /\ totalClinics = 0
  /\ nfiles = <<>>
  /\ ninflight = 0
  /\ nsent = 0
  /\ nwaited = 0
  /\ nlast = ""

(***************************************************************************)
(* Part IX.  ClinicCard (the next/image version of components/ClinicCard). *)
(***************************************************************************)
\* re-renders of one card that are followed
MaxRenders == 3

\* localFallback(placeId)
localFallback ==
  <<"h","t","t","p","s",":","/","/","i","m","a","g","e","s",".","u","n","s","p","l","a","s","h",".","c","o","m","/","p","h","o","t","o","-","1","5","7","6","0","9","1","1","6","0","5","5","0",
    "-","2","1","7","3","d","b","a","9","9","9","e","f",
    "?","w","=","4","0","0","&","h","=","3","0","0","&","f","i","t","=","c","r","o","p","&","q","=","8","0">>

\* clinic.photos?.[0]?.name of the clinic objects passed to the card
\* (the empty name: the clinic has no photo)
CardPhotos ==
  { <<>>,
    <<"p","l","a","c","e","s","/","p","1","/","p","h","o","t","o","s","/","r","1">>,
    <<"h","t","t","p","s",":","/","/","u",".","i","o","/","a",".","j","p","g">> }

\* initialPhoto, and next of the [clinic] effect
photoOf(c) ==
  IF c.photo # <<>> THEN getPhotoUrl(c.photo, 400, 300) ELSE localFallback

\* the card is mounted: useState(initialPhoto), then the effect's first run
InitCard ==
  /\ cpc = "mounted"
  /\ \E ph \in CardPhotos : cardClinic = [version |-> 1, photo |-> ph]
  /\ imgSrc = photoOf(cardClinic)
  /\ failedSrcs = {}
  /\ renders = 0

\* no card is mounted
IdleCard ==
  /\ cpc = "idle"
  /\ cardClinic = [version |-> 0, photo |-> <<>>]
  /\ imgSrc = <<>>
  /\ failedSrcs = {}
  /\ renders = 0

\* onError of <Image>: loading imgSrc failed
CImageError ==
  /\ UNCHANGED notCard
  /\ cpc = "mounted"
  /\ failedSrcs' = failedSrcs \cup {imgSrc}
  /\ imgSrc' = localFallback
  /\ UNCHANGED <<cpc, cardClinic, renders>>

\* the parent renders the card again with the same clinic object: the
\* [clinic] effect does not run
CRerender ==
  /\ UNCHANGED notCard
  /\ cpc = "mounted"
  /\ renders < MaxRenders
  /\ renders' = renders + 1
  /\ UNCHANGED <<cpc, cardClinic, imgSrc, failedSrcs>>

\* the parent renders the card with a new clinic object (the card of the same
\* clinic, its record loaded again): the [clinic] effect runs
CPropUpdate ==
  /\ UNCHANGED notCard
  /\ cpc = "mounted"
  /\ renders < MaxRenders
  /\ renders' = renders + 1
  /\ \E ph \in CardPhotos :
       cardClinic' = [version |-> cardClinic.version + 1, photo |-> ph]
  /\ imgSrc' = photoOf(cardClinic')
  /\ UNCHANGED <<cpc, failedSrcs>>

NextCard == CImageError \/ CRerender \/ CPropUpdate

(***************************************************************************)
(* Specifications: each runs one program, the others stay idle.            *)
(***************************************************************************)
vars == <<firstVars, moreVars>>

\* the programs of Parts VI to IX stay idle
IdleMore == IdleLib /\ IdleNearby /\ IdlePhoto /\ IdleCard
\* the programs of Parts I to V stay idle
IdleFirst ==
  IdleCollect /\ IdleUnsplash /\ IdleHome /\ IdleDetail /\ IdleRefresh

\* a run of one of the text-search collectors
Init ==
  InitCollect /\ IdleUnsplash /\ IdleHome /\ IdleDetail /\ IdleRefresh /\ IdleMore
Spec == Init /\ [][NextCollect]_vars

\* a run of one of the scripts: a text-search collector or the Unsplash
\* fetch script
InitScripts ==
  /\ \/ InitCollect /\ IdleUnsplash
     \/ IdleCollect /\ InitUnsplash
  /\ IdleHome /\ IdleDetail /\ IdleRefresh /\ IdleMore
NextScripts == NextCollect \/ NextUnsplash
SpecScripts == InitScripts /\ [][NextScripts]_vars

\* a visit of the home page
InitHomePage ==
  IdleCollect /\ IdleUnsplash /\ InitHome /\ IdleDetail /\ IdleRefresh /\ IdleMore
SpecHome == InitHomePage /\ [][NextHome]_vars

\* a visit of a clinic's detail page
InitDetailPage ==
  IdleCollect /\ IdleUnsplash /\ IdleHome /\ InitDetail /\ IdleRefresh /\ IdleMore
SpecDetail == InitDetailPage /\ [][NextDetail]_vars

\* a call of needsRefresh
InitRefreshCall ==
  IdleCollect /\ IdleUnsplash /\ IdleHome /\ IdleDetail /\ InitRefresh /\ IdleMore
SpecRefresh == InitRefreshCall /\ [][NextRefresh]_vars

\* a call of getPhotoUrl
InitPhotoCall == IdleFirst /\ IdleLib /\ IdleNearby /\ InitPhoto /\ IdleCard
SpecPhoto == InitPhotoCall /\ [][NextPhoto]_vars

\* a call of searchDermClinics or getClinicDetails
InitLibCall == IdleFirst /\ InitLib /\ IdleNearby /\ IdlePhoto /\ IdleCard
SpecLib == InitLibCall /\ [][NextLib]_vars

\* a run of one of the nearby-search collectors
InitNearbyRun == IdleFirst /\ IdleLib /\ InitNearby /\ IdlePhoto /\ IdleCard
SpecNearby == InitNearbyRun /\ [][NextNearby]_vars

\* the life of one ClinicCard
InitCardMounted ==
  IdleFirst /\ IdleLib /\ IdleNearby /\ IdlePhoto /\ InitCard
SpecCard == InitCardMounted /\ [][NextCard]_vars


(***************************************************************************)
(* Properties of the text-search collectors.                               *)
(***************************************************************************)
\* no two records of a clinics array carry the same place_id
uniqueIds(list) ==
  \A i, j \in 1..Len(list) : list[i].place_id = list[j].place_id => i = j

StateCodes == {states[i] : i \in 1..Len(states)}

\* C1: every step leaves the clinics array being collected, and every file
\* written so far, without two records of the same place_id; and while one
\* state is collected the records already in the array stay where they are,
\* so a place returned again never replaces or follows its first occurrence.
C1_UniquePlaceIds ==
  [][ /\ uniqueIds(clinics')
      /\ \A s \in StateCodes : files'[s] # NoFile => uniqueIds(files'[s])
      /\ st' = st =>
           \A i \in 1..Len(clinics) :
              i <= Len(clinics') /\ clinics'[i] = clinics[i]
      /\ \A s \in StateCodes :
           files'[s] # files[s] => s = states[st] /\ files'[s] = clinics
    ]_vars

\* C1 witness: a place the classifier accepts was returned again (its id was
\* already seen) and skipped, the array keeping the record collected first.
C1_Witness ==
  /\ pc = "places"
  /\ lastSkip = "duplicate"
  /\ Len(clinics) >= 1
  /\ clinics[1].place_id = "p1"
  /\ clinics[1].display_name = <<"D","e","r","m","a","t","o","l","o","g","y">>

\* C2: at most MAX_REQUESTS requests are ever sent: every request sent was
\* counted by gate first, and no request is being prepared once the counter
\* has passed the cap.
C2_RequestCap ==
  /\ sent <= MAX_REQUESTS
  /\ sent <= REQUESTS
  /\ pc \in {"send", "await"} => REQUESTS <= MAX_REQUESTS

\* C2 witness: the cap was hit after exactly MAX_REQUESTS requests went out,
\* and the refused call was counted but not sent.
C2_Witness ==
  /\ lastError = "Daily request cap hit"
  /\ sent = MAX_REQUESTS
  /\ REQUESTS = MAX_REQUESTS + 1
  /\ MAX_REQUESTS > 1

\* C3 (as claimed): in part_007 the first request of a query carries no page
\* token and every later request of that query carries the nextPageToken of
\* the response just before it.
C3_TokenFromPrecedingResponse ==
  (script = "part_007" /\ pc = "await") =>
     IF qReq = 1 THEN reqToken = None
                 ELSE lastNext # None /\ reqToken = lastNext

\* sum of the pages of the three queries of one state
PagesPerState == numPages[1] + numPages[2] + numPages[3]

\* C4 (as claimed): in part_007 no further request of a query is prepared
\* after a response without nextPageToken; and when MAX_REQUESTS exceeds the
\* total number of pages, a collectState that is not cut short by an HTTP
\* failure or by the global clinic cap sends one request per page and
\* writes its file, the request cap not being hit.
C4_OneRequestPerPage ==
  script = "part_007" =>
    /\ (\/ pc \in {"gate", "send"} /\ qReq >= 1
        \/ pc = "await" /\ qReq >= 2) => lastNext # None
    /\ MAX_REQUESTS > Len(states) * PagesPerState =>
         \A i \in 1..Len(states) :
            outcome[i] \notin {"none", "searchText failed",
                               "Global clinic cap hit"} =>
              /\ outcome[i] = "written"
              /\ sentIn[i] = PagesPerState
              /\ files[states[i]] # NoFile

\* Math.ceil(1000 / qps), stated without the division
isCeilOf1000Over(n, qps) == n * qps >= 1000 /\ (n - 1) * qps < 1000

\* C5: at most one request is in flight; the sleep that ended last before a
\* request was sent is gate's pacing sleep of ceil(1000/QPS) ms; and before a
\* follow-up page request the sleep before that one is NEXT_PAGE_DELAY_MS.
C5_SequentialPaced ==
  /\ inflight \in {0, 1}
  /\ inflight = 1 <=> pc = "await"
  /\ pc = "await" =>
       /\ Len(slept) >= 1
       /\ isCeilOf1000Over(slept[Len(slept)], QPS)
       /\ qReq > 1 =>
            /\ Len(slept) = 2
            /\ slept[1] = NEXT_PAGE_DELAY_MS

\* C5 witness: a follow-up page request is in flight after both sleeps.
C5_Witness ==
  /\ pc = "await"
  /\ inflight = 1
  /\ qReq = 2
  /\ reqToken # None
  /\ slept = <<NEXT_PAGE_DELAY_MS, 334>>

(***************************************************************************)
(* Properties of the scripts' network calls.                               *)
(***************************************************************************)
\* image downloads whose request is in flight
downloadsInFlight ==
  Cardinality({i \in 1..Len(task) : task[i] = "fetching"})

\* tasks the runner started whose then/catch callback has not run yet
tasksRunning ==
  Cardinality({i \in 1..Len(task) : task[i] \in {"fetching", "writing"}})

\* network requests in flight, of whatever script runs
requestsInFlight == inflight + searching + downloadsInFlight

RecordsCollected ==
  {clinics[i] : i \in 1..Len(clinics)} \cup
  UNION { IF files[s] = NoFile THEN {}
          ELSE {files[s][i] : i \in 1..Len(files[s])} : s \in StateCodes }

\* the records toClinic makes of the catalogue's places that the running
\* script's classifier accepts and that have an id
RecordsOfAccepted(scr) ==
  {toClinic(p) : p \in {x \in Catalogue :
       /\ x.id # NoId
       /\ IF scr = "part_007" THEN acceptByDermHeuristics7(x)
                              ELSE acceptByDermHeuristics6(x)}}
RecordsOfAccepted6 == RecordsOfAccepted("part_006")
RecordsOfAccepted7 == RecordsOfAccepted("part_007")

\* no exclude term occurs in the lower-cased name, website or any type
freeOfExcludeTerms(c) ==
  \A i \in 1..Len(DERM_KEYWORDS.exclude) :
     LET e == DERM_KEYWORDS.exclude[i] IN
       /\ ~includes(toLowerCase(c.display_name), e)
       /\ ~includes(toLowerCase(c.website), e)
       /\ \A t \in 1..Len(c.types) : ~includes(toLowerCase(c.types[t]), e)
RecordsFreeOfExcludeTerms ==
  {c \in {toClinic(p) : p \in Catalogue} : freeOfExcludeTerms(c)}

\* C7: every record collected or written is the toClinic of a place with a
\* non-empty id that the script's acceptByDermHeuristics accepts; in part_007
\* no such record has an exclude term in its name, website or types.
C7_OnlyAcceptedPlaces ==
  \A c \in RecordsCollected :
     /\ c.place_id # NoId
     /\ c \in (IF script = "part_007" THEN RecordsOfAccepted7
                                      ELSE RecordsOfAccepted6)
     /\ script = "part_007" => c \in RecordsFreeOfExcludeTerms

\* C7 witness: part_007 has just rejected 'Dental Dermatology', a place of
\* type skin_care_clinic with a core term in its name, while collecting the
\* second state; the first state's file holds a clinic.
C7_Witness ==
  /\ script = "part_007"
  /\ pc = "places"
  /\ lastSkip = "excluded"
  /\ st = 2
  /\ files[states[1]] # NoFile
  /\ Len(files[states[1]]) >= 1

(***************************************************************************)
(* Properties of the caps of the capped collector (part_007).              *)
(***************************************************************************)
\* C12 (as claimed): with PLACES_MAX_CLINICS_PER_STATE = N > 0 the clinics
\* list collected for a state, and every state file written, holds at most N
\* records.
C12_PerStateCap ==
  (script = "part_007" /\ MAX_CLINICS_PER_STATE > 0) =>
     /\ Len(clinics) <= MAX_CLINICS_PER_STATE
     /\ \A s \in StateCodes :
          files[s] # NoFile => Len(files[s]) <= MAX_CLINICS_PER_STATE

\* C13 (as claimed): with PLACES_MAX_CLINICS_GLOBAL = N > 0 the counter
\* GLOBAL_CLINICS never exceeds N, whatever the per-state cap.
C13_GlobalCap ==
  (script = "part_007" /\ MAX_CLINICS_GLOBAL > 0) =>
     GLOBAL_CLINICS <= MAX_CLINICS_GLOBAL

\* the messages on which main breaks out of its loop
CapMessages == {"Global clinic cap hit", "Daily request cap hit"}

\* C14: in part_007, once a cap error was raised, main is past its loop with
\* no request in flight, and no step starts a further state, counts or sends
\* a further request, or writes a further file.
C14_StopsAfterCap ==
  /\ []((script = "part_007" /\ lastError \in CapMessages) =>
          (pc = "done" /\ inflight = 0))
  /\ [][ (script = "part_007" /\ lastError \in CapMessages) =>
           /\ st' = st
           /\ REQUESTS' = REQUESTS
           /\ sent' = sent
           /\ files' = files
       ]_vars

\* C14 witness: the global clinic cap was raised in the first of two states;
\* main is done, the second state was never started and no file was written.
C14_Witness ==
  /\ script = "part_007"
  /\ lastError = "Global clinic cap hit"
  /\ pc = "done"
  /\ st = 1
  /\ Len(states) = 2
  /\ files[states[2]] = NoFile

\* the number of clinic records in the state files written so far
RECURSIVE recordsWritten(_)
recordsWritten(i) ==
  IF i = 0 THEN 0
  ELSE recordsWritten(i - 1)
         + (IF files[states[i]] = NoFile THEN 0 ELSE Len(files[states[i]]))

\* C15 (as claimed): at the end of a run of part_007 the 'Total clinics'
\* figure (GLOBAL_CLINICS) is the number of records written to state files.
C15_TotalIsWritten ==
  (script = "part_007" /\ pc = "done") =>
     GLOBAL_CLINICS = recordsWritten(Len(states))

(***************************************************************************)
(* Properties of the files of the Unsplash fetch script.                   *)
(***************************************************************************)
\* C18 (as claimed): when the script has ended normally, the images saved are
\* clinic-1.jpg .. clinic-N.jpg without a gap, N the number of images saved.
C18_NoGapInNumbering ==
  upc = "done" => savedFiles = 1..Cardinality(savedFiles)

(***************************************************************************)
(* Properties of the home page.                                            *)
(***************************************************************************)
\* the filter criteria of applyFilters that are active in f, all together
matchesAllFilters(c, f) ==
  /\ passesRating(c, f)
  /\ passesWebsite(c, f)
  /\ passesPhone(c, f)
  /\ passesWheelchair(c, f)
  /\ passesParking(c, f)
  /\ passesOpenNow(c, f)
  /\ passesStates(c, f)

\* C8 (as claimed): after any sequence of loads, searches and filter changes
\* every clinic the home page displays satisfies all active filter criteria.
C8_DisplayedSatisfyFilters ==
  \A k \in 1..Len(displayedClinics) :
     matchesAllFilters(HC(displayedClinics[k]), filters)

\* handleSearch: the callback of clinics.filter
matchesQuery(c, query) == includes(searchableText(c), toLowerCase(query))

\* C20 (as claimed): while the query submitted last is not empty, every clinic
\* the home page displays matches it, after any sequence of searches and
\* filter changes.
C20_DisplayedMatchQuery ==
  trim(lastQuery) # <<>> =>
     \A k \in 1..Len(displayedClinics) :
        matchesQuery(HC(displayedClinics[k]), lastQuery)

(***************************************************************************)
(* Properties of the clinic detail page.                                   *)
(***************************************************************************)
\* the clinics table holds a clinic with this place_id
inDatabase(id) == \E i \in 1..rows : placeIdOfRow(i) = id

\* C9 (as claimed): once the list request was answered, the detail page shows
\* the clinic with the route's place_id if the table holds one, and 'Clinic
\* Not Found' only if it holds none, whatever the number of rows.
C9_ShowsClinicWhenItExists ==
  (dpc = "settled" /\ response = "ok") =>
     IF inDatabase(clinicId)
       THEN detailView = "details" /\ clinic = clinicId
       ELSE detailView = "Clinic Not Found"

proxyParams(name, w, h) ==
  <<[key |-> <<"n","a","m","e">>, value |-> name],
    [key |-> <<"w">>, value |-> String(w)],
    [key |-> <<"h">>, value |-> String(h)]>>

\* C17: the URL getPhotoUrl returns does not contain the Places API key; for
\* a photo name that is an http(s) URL it is that name unchanged, otherwise
\* its path is /api/photo and its query carries exactly name, w and h, which
\* read back as the arguments; and the same call made under another key
\* returns the same URL.
C17_NoKeyInPhotoUrl ==
  /\ [](gpc = "returned" =>
          /\ ~includes(photoUrl, placesKey)
          /\ IF isFullUrl(photoName)
               THEN photoUrl = photoName
               ELSE /\ pathOf(photoUrl) = <<"/","a","p","i","/","p","h","o","t","o">>
                    /\ searchParams(photoUrl)
                         = proxyParams(photoName, maxWidth, maxHeight))
  /\ [][ (gpc = "returned" /\ gpc' = "returned") => photoUrl' = photoUrl ]_vars

\* C17 witness: the call, made under the second key for a photo name with a
\* space, '&' and '=' in it, returned the proxy URL with the name
\* percent-encoded.
C17_Witness ==
  /\ gpc = "returned"
  /\ placesKey = <<"A","I","z","a","K","2">>
  /\ photoName = <<"p","/","a"," ","b","&","w","=","9">>
  /\ maxWidth = 400
  /\ maxHeight = 300
  /\ photoUrl = <<"/","a","p","i","/","p","h","o","t","o","?","n","a","m","e","=","p","%","2","F","a","+","b","%","2","6","w","%","3","D","9","&","w","=","4","0","0","&","h","=","3","0","0">>

(***************************************************************************)
(* Properties of ClinicCard.                                               *)
(***************************************************************************)
\* loading a remote photo of the card has failed
remoteFailed == \E src \in failedSrcs : src # localFallback

\* C19 (as claimed): once loading the remote photo of a card has failed, the
\* card shows the fallback image, across any later re-renders and clinic
\* prop updates.
C19_FallbackIsSticky == remoteFailed => imgSrc = localFallback

(***************************************************************************)
(* Properties of the nearby-search collectors.                             *)
(***************************************************************************)
\* C16 (as claimed): every Places request but the first is sent after the
\* 2-second delay that followed the request before it, whether that request
\* succeeded or failed.
C16_DelayBetweenRequests ==
  (npc = "await" /\ nsent >= 2) => nwaited >= RATE_DELAY_MS

(***************************************************************************)
(* Properties of searchDermClinics and getClinicDetails.                   *)
(***************************************************************************)
\* C11: a call never throws to its caller, and a call that failed (missing
\* key, network failure, non-OK response, unparsable body, or a body the
\* transformation chokes on) returned the empty list from searchDermClinics
\* and null from getClinicDetails.
C11_NeverThrows ==
  /\ lpc # "threw"
  /\ lfailure # "" =>
       /\ lpc = "returned"
       /\ lfn = "searchDermClinics" => lresult = [kind |-> "list", value |-> <<>>]
       /\ lfn = "getClinicDetails" => lresult = [kind |-> "null"]
  /\ (lpc \in {"fetching", "parsing"} \/ lbody.kind # "none") => apiKey # <<>>
  /\ (lpc = "returned" /\ lbody.kind = "unparsable") => lfailure = "json"
  /\ (lpc = "returned" /\ apiKey = <<>>) => lfailure = "key"

\* C11 witness: getClinicDetails returned null for a response whose body
\* could not be parsed.
C11_Witness ==
  /\ lfn = "getClinicDetails"
  /\ lpc = "returned"
  /\ lbody.kind = "unparsable"
  /\ lfailure = "json"
  /\ lresult = [kind |-> "null"]

====
